---------------------------- MODULE Spec2Model ----------------------------
(***************************************************************************)
(* A model of the appsfirecat static gateway: the protocol resolver and    *)
(* content handler of the public-static host (handler.ts) and the path,    *)
(* key-selection and decryption logic of host-protocol (resolve.ts).       *)
(*                                                                         *)
(* Eight specifications share the module: Spec (one request through the    *)
(* handler), SpecGateway (several requests, interleaved at their reads,    *)
(* over one store and one configuration), SpecChain (one request over a    *)
(* long chain of links), SpecPath (one resolvePath call), SpecDecrypt (one *)
(* decrypt call), SpecTarget (one resolveTarget and getManifest call),     *)
(* SpecHeaders (one getCacheHeaders call) and SpecLegacy (one              *)
(* handleContent call of public-static).  Each keeps the variables of      *)
(* the others at their idle values.                                        *)
(*                                                                         *)
(* Strings are sequences of tokens: the characters ":", "/" and "." are    *)
(* tokens of their own, and every other token is a word (a run of letters  *)
(* and digits).  "link://s/a.js" is <<"link",":","/","/","s","/","a",".",  *)
(* "js">>.  Every string operation of the source is computed on that form. *)
(*                                                                         *)
(* A JavaScript value is a record [t, v]: t is its type tag and v a        *)
(* sequence (the tokens of a string, the bytes of a Uint8Array, the        *)
(* <<name, value>> fields of an object, the scalar of a number or boolean).*)
(***************************************************************************)
EXTENDS Integers, Sequences, FiniteSets, TLC

(***************************************************************************)
(* String primitives                                                       *)
(***************************************************************************)

\* The last element of a non-empty sequence.
Last(s) == s[Len(s)]

\* String.prototype.endsWith for a one-token suffix.
EndsWith(s, tok) == Len(s) > 0 /\ Last(s) = tok

\* String.prototype.startsWith for a token-sequence prefix.
StartsWith(s, pre) == Len(s) >= Len(pre) /\ SubSeq(s, 1, Len(pre)) = pre

\* String.prototype.includes for one token.
Includes(s, tok) == \E i \in 1..Len(s) : s[i] = tok

\* Index of the last occurrence of tok in s, 0 when there is none.
LastIndexOf(s, tok) ==
    IF Includes(s, tok)
    THEN CHOOSE i \in 1..Len(s) :
            s[i] = tok /\ \A j \in (i+1)..Len(s) : s[j] # tok
    ELSE 0

\* s.split(tok).pop(): what follows the last tok (all of s when there is none).
AfterLast(s, tok) == SubSeq(s, LastIndexOf(s, tok) + 1, Len(s))

\* The scheme separator "://".
SchemeSep == <<":", "/", "/">>

\* Words made of the letters a-z only (the regex class [a-z]+).
LowerWords ==
    {"link", "blob", "mutable", "immutable", "ftp", "s", "o", "c", "h",
     "docs", "index", "html", "js", "css", "app", "hello", "ptr", "open",
     "domains", "woff", "txt"}

\* String.prototype.toLowerCase on one token.
LowerTok(tok) ==
    CASE tok = "HTML" -> "html"
      [] tok = "JS" -> "js"
      [] tok = "ABC123" -> "abc123"
      [] tok = "Shop" -> "shop"
      [] OTHER -> tok

\* String.prototype.toLowerCase.
ToLowerCase(s) == [i \in 1..Len(s) |-> LowerTok(s[i])]

\* s.split(tok)[0]: what precedes the first tok (all of s when there is none).
BeforeFirst(s, tok) ==
    IF Includes(s, tok)
    THEN SubSeq(s, 1, (CHOOSE i \in 1..Len(s) :
                          s[i] = tok /\ \A j \in 1..(i-1) : s[j] # tok) - 1)
    ELSE s

\* Words that are a hexadecimal fragment of at least 6 characters
\* (the regex class [a-f0-9]{6,} under the /i flag).
IsHexFragment(tok) == LowerTok(tok) \in {"abc123", "deadbeef"}

(***************************************************************************)
(* JavaScript values                                                       *)
(***************************************************************************)

Str(s) == [t |-> "string", v |-> s]
Bytes(b) == [t |-> "bytes", v |-> b]
Obj(fields) == [t |-> "object", v |-> fields]
Num(n) == [t |-> "number", v |-> <<n>>]
Bool(b) == [t |-> "boolean", v |-> <<b>>]
Null == [t |-> "null", v |-> <<>>]

\* undefined: the value of a property an object does not have.
Undefined == [t |-> "undefined", v |-> <<>>]

\* What a read yields for a URI that holds no record
\* ({success: false}, record undefined).
NoRecord == [t |-> "none", v |-> <<>>]

\* JavaScript truthiness of a value (the test `!result.record?.data`).
Truthy(d) ==
    CASE d.t = "string" -> Len(d.v) > 0
      [] d.t = "number" -> d.v[1] # 0
      [] d.t = "boolean" -> d.v[1]
      [] d.t = "null" -> FALSE
      [] d.t = "none" -> FALSE
      [] d.t = "undefined" -> FALSE
      [] OTHER -> TRUE

\* `name in data` for an object value.
HasField(d, name) ==
    d.t = "object" /\ \E i \in 1..Len(d.v) : d.v[i][1] = name

\* data[name] for an object value that has the field.
Field(d, name) ==
    d.v[CHOOSE i \in 1..Len(d.v) : d.v[i][1] = name][2]

\* A read succeeded and returned data: `result.success && result.record?.data`.
Found(rec) == rec.t # "none" /\ Truthy(rec)

(***************************************************************************)
(* handler.ts: helpers                                                     *)
(***************************************************************************)

\* Envelopes are removed at every level.
RECURSIVE unwrapData_EveryLevel(_)
unwrapData_EveryLevel(data) ==
    IF Truthy(data) /\ data.t \in {"object", "bytes"} /\ HasField(data, "payload")
    THEN unwrapData_EveryLevel(Field(data, "payload"))
    ELSE data

\* unwrapData: any truthy object with a "payload" property is replaced by
\* that property; every other value is returned as is.
unwrapData(data) ==
    IF Truthy(data) /\ data.t \in {"object", "bytes"} /\ HasField(data, "payload")
    THEN Field(data, "payload")
    ELSE data

\* hasFileExtension: the last "/"-segment of the path contains a ".".
hasFileExtension(path) == Includes(AfterLast(path, "/"), ".")

\* getProtocol: the match of /^([a-z]+):\/\//, "" when there is none.
getProtocol(uri) ==
    IF Len(uri) >= 4 /\ uri[1] \in LowerWords /\ SubSeq(uri, 2, 4) = SchemeSep
    THEN uri[1]
    ELSE ""

\* The MIME_TYPES table, keyed by extension.
MIME_TYPES ==
    [html |-> "text/html; charset=utf-8",
     htm |-> "text/html; charset=utf-8",
     css |-> "text/css; charset=utf-8",
     js |-> "application/javascript; charset=utf-8",
     mjs |-> "application/javascript; charset=utf-8",
     json |-> "application/json; charset=utf-8",
     xml |-> "application/xml; charset=utf-8",
     txt |-> "text/plain; charset=utf-8",
     md |-> "text/markdown; charset=utf-8",
     csv |-> "text/csv; charset=utf-8",
     png |-> "image/png",
     jpg |-> "image/jpeg",
     jpeg |-> "image/jpeg",
     gif |-> "image/gif",
     webp |-> "image/webp",
     svg |-> "image/svg+xml",
     ico |-> "image/x-icon",
     avif |-> "image/avif",
     woff |-> "font/woff",
     woff2 |-> "font/woff2",
     ttf |-> "font/ttf",
     otf |-> "font/otf",
     eot |-> "application/vnd.ms-fontobject",
     mp3 |-> "audio/mpeg",
     mp4 |-> "video/mp4",
     webm |-> "video/webm",
     ogg |-> "audio/ogg",
     wav |-> "audio/wav",
     wasm |-> "application/wasm",
     pdf |-> "application/pdf",
     zip |-> "application/zip",
     gz |-> "application/gzip",
     tar |-> "application/x-tar"]

\* Property names every plain object inherits from Object.prototype: `o[k]`
\* is truthy for them whether or not o has an own property k.
ObjectPrototypeKeys == {"constructor", "toString", "valueOf"}

\* getContentTypeFromUri: `MIME_TYPES[ext] || "application/octet-stream"` for
\* the lower-cased text after the last "." of the last "/"-segment.
getContentTypeFromUri(uri) ==
    LET path == AfterLast(uri, "/")
        ext == AfterLast(path, ".")
    IN  IF Len(ext) = 1 /\ LowerTok(ext[1]) \in DOMAIN MIME_TYPES
        THEN MIME_TYPES[LowerTok(ext[1])]
        ELSE IF Len(ext) = 1 /\ LowerTok(ext[1]) \in ObjectPrototypeKeys
        THEN "[inherited property]"
        ELSE "application/octet-stream"

\* Every path gets the default directive.
getCacheControl_NoHashedRule(path) == "public, max-age=3600"

\* getCacheControl: /\.[a-f0-9]{6,}\.(js|css|woff2?)$/i on the file name.
getCacheControl(path) ==
    LET filename == AfterLast(path, "/")
        n == Len(filename)
    IN  IF /\ n >= 4
           /\ filename[n-3] = "."
           /\ IsHexFragment(filename[n-2])
           /\ filename[n-1] = "."
           /\ LowerTok(filename[n]) \in {"js", "css", "woff", "woff2"}
        THEN "public, max-age=31536000, immutable"
        ELSE "public, max-age=3600"

\* A response: status, body (a value, or [t |-> "json"] for JSON.stringify
\* of a value) and the two headers the handler sets.
Response(status, body, ctype, cache) ==
    [status |-> status, body |-> body, ctype |-> ctype, cache |-> cache]

\* An error response that leaves caching to the defaults of the content.
ErrorResponse_Cacheable(status, msg) ==
    Response(status, Str(msg), "text/plain; charset=utf-8", "public, max-age=3600")

\* buildErrorHeaders, on a plain-text error response with the given message.
ErrorResponse(status, msg) ==
    Response(status, Str(msg), "text/plain; charset=utf-8", "no-store")

\* serveContent: strings and byte arrays are served with the content type of
\* the given path, every other value as JSON text.
serveContent(data, uri) ==
    IF data.t \in {"string", "bytes"}
    THEN Response(200, data, getContentTypeFromUri(uri), getCacheControl(uri))
    ELSE Response(200, [t |-> "json", v |-> <<data>>],
                  "application/json; charset=utf-8", getCacheControl(uri))

(***************************************************************************)
(* handler.ts: resolveByProtocol                                           *)
(***************************************************************************)

\* Max depth for following links.
MAX_LINK_DEPTH == 10

\* The outcome of one invocation of resolveByProtocol: a response, or the
\* recursive call it ends with; read tells whether client.read was called.
Reply(resp, read) ==
    [kind |-> "reply", resp |-> resp, uri |-> <<>>, depth |-> 0, read |-> read]
Call(uri, depth) ==
    [kind |-> "call", resp |-> ErrorResponse(0, <<>>), uri |-> uri,
     depth |-> depth, read |-> TRUE]

\* The operands of `originalPath || uri` swapped.
OrElse_Swapped(a, b) == IF Len(b) > 0 THEN b ELSE a

\* `originalPath || uri`.
OrElse(a, b) == IF Len(a) > 0 THEN a ELSE b

\* The depth is never checked.
DepthExceeded_Never(depth) == FALSE

\* The guard lets one more level through.
DepthExceeded_OneLate(depth) == depth > MAX_LINK_DEPTH + 1

\* The guard refuses the call one level early.
DepthExceeded_OneEarly(depth) == depth >= MAX_LINK_DEPTH

\* The guard against infinite loops: `depth > MAX_LINK_DEPTH`.
DepthExceeded(depth) == depth > MAX_LINK_DEPTH

\* case "link": the record must hold a string URI, which is resolved in turn.
resolveLink(uri, originalPath, depth, rec) ==
    LET data == unwrapData(rec)
    IN  IF ~Found(rec)
        THEN Reply(ErrorResponse(404, <<"Link not found: ">> \o uri), TRUE)
        ELSE IF data.t # "string"
        THEN Reply(ErrorResponse(500, <<"Invalid link value at ">> \o uri), TRUE)
        ELSE Call(data.v, depth + 1)

\* A blob that has no record is served like one that has.
resolveBlob_ServesMissing(uri, originalPath, depth, rec) ==
    Reply(serveContent(unwrapData(rec), originalPath), TRUE)

\* case "blob": the record is served with headers from the original path.
resolveBlob(uri, originalPath, depth, rec) ==
    IF ~Found(rec)
    THEN Reply(ErrorResponse(404, <<"Blob not found: ">> \o uri), TRUE)
    ELSE Reply(serveContent(unwrapData(rec), originalPath), TRUE)

\* A direct record that holds a URI-shaped string is followed as a link: the
\* string sniffing of the earlier handler.
resolveDirect_SniffsLinks(uri, originalPath, depth, rec) ==
    IF ~Found(rec)
    THEN Reply(ErrorResponse(404, <<"Not found: ">> \o uri), TRUE)
    ELSE IF unwrapData(rec).t = "string" /\ getProtocol(unwrapData(rec).v) # ""
    THEN Call(unwrapData(rec).v, depth + 1)
    ELSE Reply(serveContent(unwrapData(rec), OrElse(originalPath, uri)), TRUE)

\* case "mutable", "immutable": the record is served as is, with headers
\* from `originalPath || uri`.
resolveDirect(uri, originalPath, depth, rec) ==
    IF ~Found(rec)
    THEN Reply(ErrorResponse(404, <<"Not found: ">> \o uri), TRUE)
    ELSE Reply(serveContent(unwrapData(rec), OrElse(originalPath, uri)), TRUE)

\* One invocation of resolveByProtocol(client, uri, originalPath, depth);
\* rec is what client.read(uri) returns when the invocation reads.
resolveByProtocol(uri, originalPath, depth, rec) ==
    LET protocol == getProtocol(uri)
    IN  IF DepthExceeded(depth)
        THEN Reply(ErrorResponse(508, <<"Too many link redirects">>), FALSE)
        ELSE CASE protocol = "link" -> resolveLink(uri, originalPath, depth, rec)
               [] protocol = "blob" -> resolveBlob(uri, originalPath, depth, rec)
               [] protocol \in {"mutable", "immutable"} ->
                    resolveDirect(uri, originalPath, depth, rec)
               [] OTHER ->
                    Reply(ErrorResponse(400, <<"Unsupported protocol: ", protocol>>),
                          FALSE)

(***************************************************************************)
(* handler.ts: handleContent and resolveTarget                             *)
(***************************************************************************)

\* `baseUri.endsWith("/") ? baseUri : baseUri + "/"`.
normalizedBase(baseUri) ==
    IF EndsWith(baseUri, "/") THEN baseUri ELSE baseUri \o <<"/">>

\* The URI of the exact attempt: base + path, the base alone for an empty path.
fullUri(baseUri, contentPath) ==
    IF Len(contentPath) > 0
    THEN normalizedBase(baseUri) \o contentPath
    ELSE normalizedBase(baseUri)

\* `contentPath.replace(/\/$/, "")`, then "/index.html" (or "index.html").
indexPath(contentPath) ==
    LET basePath == IF EndsWith(contentPath, "/")
                    THEN SubSeq(contentPath, 1, Len(contentPath) - 1)
                    ELSE contentPath
    IN  IF Len(basePath) > 0
        THEN basePath \o <<"/", "index", ".", "html">>
        ELSE <<"index", ".", "html">>

\* The URI of the index.html attempt.
indexUri(baseUri, contentPath) == normalizedBase(baseUri) \o indexPath(contentPath)

\* The retry is made after any failure, not only after 404.
TriesIndex_AnyError(resp, contentPath) ==
    resp.status # 200 /\ ~hasFileExtension(contentPath)

\* The retry is made whether or not the path has a file extension.
TriesIndex_IgnoresExtension(resp, contentPath) == resp.status = 404

\* The condition under which handleContent retries with index.html.
TriesIndex(resp, contentPath) ==
    resp.status = 404 /\ ~hasFileExtension(contentPath)

\* Every mutable:// target is read as a pointer.
IsPointer_IgnoresSlash(tgt) == StartsWith(tgt, <<"mutable">> \o SchemeSep)

\* resolveTarget reads the configured target as a pointer: a mutable:// URI
\* that does not end with "/".
IsPointer(tgt) ==
    ~EndsWith(tgt, "/") /\ StartsWith(tgt, <<"mutable">> \o SchemeSep)

\* A pointer that does not resolve to a string leaves the gateway without a
\* base.
resolvedTarget_RejectsUnresolved(tgt, rec) ==
    IF Found(rec) /\ unwrapData(rec).t = "string"
    THEN unwrapData(rec).v
    ELSE <<>>

\* resolveTarget, after the pointer read returned rec: the unwrapped string,
\* or the configured target itself when the read gave no string.
resolvedTarget(tgt, rec) ==
    IF Found(rec) /\ unwrapData(rec).t = "string"
    THEN unwrapData(rec).v
    ELSE tgt

\* The resolved base is kept as the configured target.
configAfterResolve_KeepsBase(tgt, rec) == resolvedTarget(tgt, rec)

\* config.target after resolveTarget: the configuration is read
\* (`const { target } = config`) and never assigned; the resolved base is
\* returned to the caller only.
configAfterResolve(tgt, rec) == tgt

(***************************************************************************)
(* handler.ts: createHandler, custom domains and the API endpoints         *)
(***************************************************************************)

\* An HTTP request: the Host header, the pathname of the URL and the domain
\* parameter of its query ("" when there is none).
Request(host, path, domain) == [host |-> host, path |-> path, domain |-> domain]

\* The port is kept in the registry key.
domainOf_KeepsPort(host) == ToLowerCase(host)

\* `host.split(":")[0].toLowerCase()`.
domainOf(host) == ToLowerCase(BeforeFirst(host, ":"))

\* isCustomDomain: localhost is always primary; with a primary domain
\* configured every other domain is custom; with none, every domain is.
isCustomDomain(host, primaryDomain) ==
    LET domain == domainOf(host)
    IN  IF domain = <<"localhost">> \/ domain = <<"127", ".", "0", ".", "0", ".", "1">>
        THEN FALSE
        ELSE IF Len(primaryDomain) > 0
        THEN domain # ToLowerCase(primaryDomain)
        ELSE TRUE

\* `mutable://open/domains/${domain}`.
mappingUri(domain) ==
    <<"mutable">> \o SchemeSep \o <<"open", "/", "domains", "/">> \o domain

\* /api/v1/<name>.
ApiPath(name) == <<"/", "api", "/", "v1", "/">> \o name

\* The endpoint createHandler dispatches a request to.
createHandler(request, primaryDomain) ==
    IF isCustomDomain(request.host, primaryDomain) THEN "custom"
    ELSE IF request.path = ApiPath(<<"health">>) THEN "health"
    ELSE IF request.path = ApiPath(<<"info">>) THEN "info"
    ELSE IF request.path = ApiPath(<<"pubkey">>) THEN "pubkey"
    ELSE IF request.path = ApiPath(<<"target">>) THEN "target"
    ELSE IF request.path = ApiPath(<<"domain-check">>) THEN "domain-check"
    ELSE IF \/ StartsWith(request.path, ApiPath(<<"serve", "/">>))
            \/ request.path = ApiPath(<<"serve">>)
    THEN "serve"
    ELSE "unknown"

\* handleServe: `path.replace(/^\/api\/v1\/serve\/?/, "")`.
serveContentPath(path) ==
    IF StartsWith(path, ApiPath(<<"serve", "/">>))
    THEN SubSeq(path, Len(ApiPath(<<"serve", "/">>)) + 1, Len(path))
    ELSE IF StartsWith(path, ApiPath(<<"serve">>))
    THEN SubSeq(path, Len(ApiPath(<<"serve">>)) + 1, Len(path))
    ELSE path

\* Every path is served as the root of the domain.
customContentPath_AlwaysRoot(path) == <<>>

\* handleCustomDomain: `path === "/" ? "" : path.slice(1)`.
customContentPath(path) ==
    IF path = <<"/">> THEN <<>> ELSE SubSeq(path, 2, Len(path))

\* handleCustomDomain, after the registry read returned rec: no mapping, a
\* mapping that is neither a string nor an object with a target, or the base
\* URI (the string itself, or the target property whatever it holds).
domainMapping(rec) ==
    LET data == unwrapData(rec)
    IN  IF ~Found(rec)
        THEN [kind |-> "missing", base |-> Null]
        ELSE IF data.t = "string"
        THEN [kind |-> "base", base |-> data]
        ELSE IF Truthy(data) /\ data.t \in {"object", "bytes"}
                /\ HasField(data, "target")
        THEN [kind |-> "base", base |-> Field(data, "target")]
        ELSE [kind |-> "invalid", base |-> Null]

\* handleError: the response to an exception thrown under handleContent.
handleError(message) ==
    ErrorResponse(500, <<"Error: ">> \o message)

\* handleDomainCheck: 400 without the parameter, 200 for a registered domain,
\* 404 otherwise; rec is what the read of the registry returned.
PlainResponse(status, body) ==
    Response(status, body, "text/plain", "")

handleDomainCheck(domain, rec) ==
    IF Len(domain) = 0
    THEN PlainResponse(400, Str(<<"Missing domain parameter">>))
    ELSE IF Found(rec)
    THEN PlainResponse(200, Str(<<"OK">>))
    ELSE PlainResponse(404, Str(<<"Domain not registered">>))

\* handleTarget: the configured target, 404 when there is none.
handleTarget(tgt) ==
    IF Len(tgt) > 0
    THEN PlainResponse(200, Str(tgt))
    ELSE PlainResponse(404, Str(<<"No target configured">>))

\* handlePubkey: config.hostPubkey.
HostPubkey == <<"hostpubkey">>
handlePubkey == PlainResponse(200, Str(HostPubkey))

\* A JSON body: JSON.stringify of an object.
Json(value) == [t |-> "json", v |-> <<value>>]

\* handleInfo: the pubkey, the type, the version, the capabilities and the
\* configured target of the host.
handleInfo(tgt) ==
    Response(200,
             Json(Obj(<< <<"pubkey", Str(HostPubkey)>>,
                         <<"type", Str(<<"public-static">>)>>,
                         <<"version", Str(<<"0", ".", "1", ".", "0">>)>>,
                         <<"capabilities", Str(<<"decrypt">>)>>,
                         <<"target", Str(tgt)>> >>)),
             "application/json", "")

\* handleHealth: 200 "ok" when the backend's health endpoint answered ok,
\* 503 "degraded" otherwise; the body carries Date.now().
handleHealth(backendOk, now) ==
    Response(IF backendOk THEN 200 ELSE 503,
             Json(Obj(<< <<"status", Str(IF backendOk THEN <<"ok">>
                                                      ELSE <<"degraded">>)>>,
                         <<"timestamp", Num(now)>>,
                         <<"backend", Str(IF backendOk THEN <<"ok">>
                                                       ELSE <<"error">>)>> >>)),
             "application/json", "")

\* The answer to an unknown endpoint.
UnknownEndpoint == ErrorResponse(404, <<"Not found">>)

(***************************************************************************)
(* The universe of the handler specification                               *)
(***************************************************************************)

\* How many link:// URIs may occur as values in the store.
MaxLinks == 2

LinkWords == <<"l1", "l2", "l3", "l4", "l5">>

Uri(scheme, path) == <<scheme>> \o SchemeSep \o path

\* link://s/l1, link://s/l2, ...
LinkUris == {Uri("link", <<"s", "/", LinkWords[i]>>) : i \in 1..MaxLinks}

BlobUri == Uri("blob", <<"o", "/", "h">>)

ImmutableUri == Uri("immutable", <<"s", "/", "c", ".", "abc123", ".", "css">>)
MutableUri == Uri("mutable", <<"s", "/", "c">>)

PlainObject == Obj(<< <<"title", Str(<<"hello">>)>> >>)

\* A JSON document that is no authenticated message and has a field named
\* payload.
ObjectWithPayload ==
    Obj(<< <<"title", Str(<<"hello">>)>>, <<"payload", Str(<<"x">>)>> >>)

\* The authenticated message {auth, payload}.
Envelope(p) == Obj(<< <<"auth", Obj(<<>>)>>, <<"payload", p>> >>)

\* Everything a read of a content URI may return: no record, URIs of every
\* scheme as plain strings, plain text, the empty string, bytes, an object,
\* null, and enveloped values (a link, text, the empty string, an object and
\* an envelope).
Records ==
    {NoRecord} \cup
    {Str(l) : l \in LinkUris} \cup
    {Str(BlobUri), Str(ImmutableUri), Str(MutableUri),
     Str(<<"hello">>), Str(<<>>),
     Bytes(<<1, 2>>), PlainObject, Null,
     Envelope(Str(Uri("link", <<"s", "/", LinkWords[1]>>))),
     Envelope(Str(<<"hello">>)),
     Envelope(Str(<<>>)),
     Envelope(PlainObject),
     Envelope(Envelope(Str(BlobUri)))}

\* config.target; the empty string stands for a target that is not set.
PointerTarget == Uri("mutable", <<"s", "/", "ptr">>)
Targets ==
    {<<>>,
     Uri("link", <<"s", "/">>),
     Uri("immutable", <<"s">>),
     Uri("mutable", <<"s", "/">>),
     Uri("ftp", <<"s", "/">>),
     PointerTarget}

\* What the pointer record may hold: nothing, a base URI bare and in an
\* envelope, the URI of another pointer, the empty string bare and in an
\* envelope, and an object.
PointerRecords ==
    {NoRecord,
     Str(Uri("blob", <<"s", "/">>)),
     Envelope(Str(Uri("immutable", <<"s", "/">>))),
     Str(MutableUri),
     Str(<<>>),
     Envelope(Str(<<>>)),
     PlainObject}

\* Host headers: the development host, a host with a port and a host under
\* fire.cat.
LocalHost == <<"localhost", ":", "8080">>
ShopHost == <<"Shop", ".", "io", ":", "8443">>
FireCatHost == <<"app", ".", "fire", ".", "cat">>

\* config.primaryDomain; the empty string stands for one that is not set.
ShopDomain == <<"shop", ".", "io">>
FireCatDomain == <<"fire", ".", "cat">>

\* What the domain registry may hold for a domain: nothing, a base URI as a
\* string, in an envelope or as the target of a mapping object, a base shaped
\* like a pointer, the empty string bare and in an envelope, an object
\* without a target and a mapping whose target is not a string.
DomainRecords ==
    {NoRecord,
     Str(Uri("blob", <<"s", "/">>)),
     Envelope(Str(Uri("immutable", <<"s">>))),
     Obj(<< <<"target", Str(Uri("mutable", <<"s", "/">>))>> >>),
     Str(PointerTarget),
     Str(<<>>),
     Envelope(Str(<<>>)),
     PlainObject,
     Obj(<< <<"target", Num(7)>> >>)}

\* Chains of links: link://c/k1 holds link://c/k2, and so on up to the last
\* link, which holds the URI of a blob://, immutable:// or mutable:// record.
MaxChain == 12
ChainWords ==
    <<"k1", "k2", "k3", "k4", "k5", "k6", "k7", "k8", "k9", "k10", "k11",
      "k12", "k13", "k14">>
ChainLink(i) == Uri("link", <<"c", "/", ChainWords[i]>>)
ChainUris == {ChainLink(i) : i \in 1..MaxChain}
ChainEnds == {Uri(scheme, <<"c", "/", "h">>) : scheme \in {"blob", "immutable", "mutable"}}
ChainContents ==
    {Str(<<"hello">>), Bytes(<<1, 2>>), PlainObject, ObjectWithPayload}
ChainRecords ==
    {NoRecord} \cup {Str(u) : u \in ChainUris} \cup {Str(e) : e \in ChainEnds}

\* The store that holds a chain of k links to the record at end.
ChainStore(k, end, content) ==
    [u \in {ChainLink(i) : i \in 1..k} \cup {end} |->
        IF u = end THEN content
        ELSE IF u = ChainLink(k) THEN Str(end)
        ELSE Str(ChainLink((CHOOSE i \in 1..k : u = ChainLink(i)) + 1))]

\* The request for the first link of the chain, on a gateway whose target is
\* link://c/ or a pointer that holds it.
ChainTarget == Uri("link", <<"c", "/">>)
ChainPointer == Uri("mutable", <<"c", "/", "ptr">>)

\* The base another client of the store points the pointer to later.
ChainOtherBase == Uri("link", <<"d", "/">>)
ChainRequest ==
    [host |-> <<"localhost", ":", "8080">>,
     path |-> <<"/", "api", "/", "v1", "/", "serve", "/", "k1">>,
     domain |-> <<>>]

\* The records a read of uri may find.
RecordsAt(uri) ==
    IF uri \in ChainUris THEN ChainRecords
    ELSE IF uri \in ChainEnds THEN ChainContents \cup {NoRecord}
    ELSE IF uri = ChainPointer
    THEN {NoRecord, Str(ChainTarget), Str(ChainOtherBase)}
    ELSE IF uri = PointerTarget THEN PointerRecords
    ELSE IF StartsWith(uri, mappingUri(<<>>)) THEN DomainRecords
    ELSE Records

\* The configurations: every target on a gateway whose primary domain is
\* that of the second host, and two gateways for which that host is a custom
\* domain, one without a primary domain and one with another.
Config(tgt, primaryDomain) == [target |-> tgt, primaryDomain |-> primaryDomain]
Configs ==
    {Config(t, ShopDomain) : t \in Targets}
    \cup {Config(Uri("link", <<"s", "/">>), <<>>),
          Config(PointerTarget, FireCatDomain)}

\* Request paths after the /api/v1/serve/ prefix.
ContentPaths ==
    {<<>>,
     <<"l1">>,
     <<"docs", "/">>,
     <<"app", ".", "abc123", ".", "js">>}

\* The requests: content under /api/v1/serve/ on the development host and
\* /api/v1/serve itself on the second host, the root of the second host and
\* a path below it, and the API endpoints.
ServeRequests ==
    {Request(LocalHost, ApiPath(<<"serve", "/">>) \o p, <<>>) : p \in ContentPaths}
    \cup {Request(ShopHost, ApiPath(<<"serve">>), <<>>)}
RootRequests ==
    {Request(ShopHost, <<"/">> \o p, <<>>) : p \in {<<>>, <<"l1">>}}
ApiRequests ==
    {Request(LocalHost, ApiPath(<<e>>), <<>>) :
        e \in {"health", "info", "pubkey", "target", "domain-check"}}
    \cup {Request(LocalHost, ApiPath(<<"domain-check">>), <<"Shop", ".", "io">>),
          Request(FireCatHost, ApiPath(<<"pubkey">>), <<>>)}
Requests == ServeRequests \cup RootRequests \cup ApiRequests

\* No request.
NoRequest == Request(<<>>, <<>>, <<>>)

\* What Date.now() may give.
Times == {1, 2}

(***************************************************************************)
(* State                                                                   *)
(***************************************************************************)

VARIABLES
    store,        \* the records of the backing store the gateway has read so far
    target,       \* config.target
    pc,           \* where the request is
    contentPath,  \* the request path below /api/v1/serve/
    baseUri,      \* the base URI handleContent was called with
    curUri,       \* resolveByProtocol: the uri argument of the current invocation
    origPath,     \* resolveByProtocol: its originalPath argument
    curDepth,     \* resolveByProtocol: its depth argument
    attempts,     \* the top-level resolveByProtocol calls of the request: the
                  \* URIs of their invocations (hops), their reads, their response
    reads,        \* the URIs read for the request, in order
    response,     \* the response of the request
    primaryDomain,\* config.primaryDomain
    req,          \* the request
    env           \* what the request saw of the backend's health and the clock

\* The state of the handler.
handlerVars ==
    <<store, target, pc, contentPath, baseUri, curUri, origPath, curDepth,
      attempts, reads, response, primaryDomain, req, env>>

VARIABLES
    parked,       \* the request that is suspended at a read while another runs
    served,       \* the requests answered so far, with their responses
    handled       \* how many requests have been answered

\* The state of the gateway beyond the request that is running.
gatewayVars == <<parked, served, handled>>

VARIABLES
    reqPath,      \* resolvePath: its path argument
    manifest,     \* resolvePath: its manifest argument
    resolved      \* resolvePath: what it returned or threw

\* The state of a resolvePath call.
pathVars == <<reqPath, manifest, resolved>>

VARIABLES
    encInput,     \* decrypt: its encrypted argument
    ctx,          \* decrypt: its context argument
    rawImport,    \* what importKey does with a raw X25519 key that has usages
    dpc,          \* where the decrypt call is
    selected,     \* decrypt: what getWrappedKey returned
    unwrapped,    \* decrypt: what unwrapContentKey returned or threw
    consulted,    \* the key material of the context read so far
    output        \* what decrypt returned or threw

\* The state of a decrypt call.
decryptVars ==
    <<encInput, ctx, rawImport, dpc, selected, unwrapped, consulted, output>>

VARIABLES
    hostRequest,  \* resolveTarget: its request argument
    uriPattern,   \* resolveTarget: its pattern argument
    pointerRec,   \* what the store holds at the target pointer of the app
    manifestRec,  \* what the store holds at manifest.json of the build
    hpc,          \* where the host-protocol resolution is
    buildTarget,  \* what resolveTarget returned or threw
    manifestOut,  \* what getManifest returned or threw
    hpReads       \* the URIs read by resolveTarget and getManifest, in order

\* The state of a resolveTarget and getManifest call.
targetVars ==
    <<hostRequest, uriPattern, pointerRec, manifestRec, hpc, buildTarget,
      manifestOut, hpReads>>

VARIABLES
    hdrPath,      \* getCacheHeaders: its filePath argument
    hdrConfig,    \* getCacheHeaders: its headersConfig argument
    hdrOut,       \* what the two getCacheHeaders functions returned
    hdrPc         \* where the getCacheHeaders call is

\* The state of a getCacheHeaders call.
headerVars == <<hdrPath, hdrConfig, hdrOut, hdrPc>>

VARIABLES
    legacyStore,    \* the records the legacy handler has found in the store
    legacyUri,      \* handleContent of public-static: its uri argument
    legacyDepth,    \* handleContent of public-static: its depth argument
    walkIndex,      \* findLinkInPath: the loop index i, 0 outside the loop
    calls,          \* the invocations of handleContent, with what each read
    legacyReads,    \* the URIs the legacy handler read, in order
    legacyResponse, \* what the top-level handleContent returned
    legacyPc        \* where the legacy handleContent is

\* The state of a handleContent call of the public-static handler.
legacyVars ==
    <<legacyStore, legacyUri, legacyDepth, walkIndex, calls, legacyReads,
      legacyResponse, legacyPc>>

vars ==
    <<handlerVars, gatewayVars, pathVars, decryptVars, targetVars, headerVars,
      legacyVars>>

\* What each specification leaves alone.
besidesHandler == <<gatewayVars, pathVars, decryptVars, targetVars, headerVars,
      legacyVars>>
besidesGateway == <<pathVars, decryptVars, targetVars, headerVars,
      legacyVars>>
besidesPath == <<handlerVars, gatewayVars, decryptVars, targetVars, headerVars,
      legacyVars>>
besidesDecrypt == <<handlerVars, gatewayVars, pathVars, targetVars, headerVars,
      legacyVars>>
besidesTarget == <<handlerVars, gatewayVars, pathVars, decryptVars, headerVars,
      legacyVars>>
besidesHeaders == <<handlerVars, gatewayVars, pathVars, decryptVars, targetVars,
      legacyVars>>
besidesLegacy == <<handlerVars, gatewayVars, pathVars, decryptVars, targetVars,
      headerVars>>

\* A call that has not returned.
Pending == [ok |-> FALSE, code |-> "pending"]

\* No resolvePath call is made.
PathIdle ==
    /\ reqPath = <<>>
    /\ manifest = [files |-> {}]
    /\ resolved = Pending

\* No call of the legacy handleContent is made.
LegacyIdle ==
    /\ legacyStore = <<>>
    /\ legacyUri = <<>>
    /\ legacyDepth = 0
    /\ walkIndex = 0
    /\ calls = <<>>
    /\ legacyReads = <<>>
    /\ legacyResponse = [status |-> 0]
    /\ legacyPc = "off"

\* No getCacheHeaders call is made.
HeadersIdle ==
    /\ hdrPath = <<>>
    /\ hdrConfig = [has |-> FALSE, v |-> <<>>]
    /\ hdrOut = Pending
    /\ hdrPc = "off"

\* No resolveTarget call is made.
TargetIdle ==
    /\ hostRequest = [appPubkey |-> <<>>]
    /\ uriPattern = "accounts"
    /\ pointerRec = NoRecord
    /\ manifestRec = NoRecord
    /\ hpc = "off"
    /\ buildTarget = Pending
    /\ manifestOut = Pending
    /\ hpReads = <<>>

\* No decrypt call is made.
DecryptIdle ==
    /\ encInput = <<>>
    /\ ctx = [hostPrivateKey |-> <<>>, hostPubkey |-> <<>>]
    /\ rawImport = "rejected"
    /\ dpc = "off"
    /\ selected = [has |-> FALSE, v |-> <<>>]
    /\ unwrapped = Pending
    /\ consulted = {}
    /\ output = Pending

\* No response yet.
NoResponse == Response(0, Null, "", "")

\* The variables of one request, and the request as a record of them.
frameVars ==
    <<pc, contentPath, baseUri, curUri, origPath, curDepth, attempts, reads,
      response, req, env>>

Frame ==
    [pc |-> pc, contentPath |-> contentPath, baseUri |-> baseUri,
     curUri |-> curUri, origPath |-> origPath, curDepth |-> curDepth,
     attempts |-> attempts, reads |-> reads, response |-> response,
     req |-> req, env |-> env]

\* A request slot with no request in it.
IdleFrame ==
    [pc |-> "idle", contentPath |-> <<>>, baseUri |-> <<>>, curUri |-> <<>>,
     origPath |-> <<>>, curDepth |-> 0, attempts |-> <<>>, reads |-> <<>>,
     response |-> NoResponse, req |-> NoRequest, env |-> <<>>]

\* The running request is f.
FrameIs(f) ==
    /\ pc = f.pc
    /\ contentPath = f.contentPath
    /\ baseUri = f.baseUri
    /\ curUri = f.curUri
    /\ origPath = f.origPath
    /\ curDepth = f.curDepth
    /\ attempts = f.attempts
    /\ reads = f.reads
    /\ response = f.response
    /\ req = f.req
    /\ env = f.env

\* A read of a URI that holds no record leaves an empty record behind.
ReadGives_LeavesRecord(u, rec) ==
    /\ rec \in RecordsAt(u)
    /\ u \in DOMAIN store => rec = store[u]
    /\ store' = IF rec = NoRecord THEN (u :> Null) @@ store ELSE store
    /\ reads' = Append(reads, u)

\* The backing store is external and the gateway never writes it: a record is
\* fixed the first time it is read, so the behaviours cover every store over
\* the universe.  Reading u gives rec.
ReadGives(u, rec) ==
    /\ rec \in RecordsAt(u)
    /\ u \in DOMAIN store => rec = store[u]
    /\ store' = IF u \in DOMAIN store THEN store ELSE store @@ (u :> rec)
    /\ reads' = Append(reads, u)

Init ==
    /\ store = <<>>
    /\ \E c \in Configs : target = c.target /\ primaryDomain = c.primaryDomain
    /\ FrameIs(IdleFrame)
    /\ parked = IdleFrame
    /\ served = {}
    /\ handled = 0
    /\ PathIdle
    /\ DecryptIdle
    /\ TargetIdle
    /\ HeadersIdle
    /\ LegacyIdle

\* createHandler dispatches request r to the given endpoint.
Dispatch(r, endpoint) ==
    /\ pc = "idle"
    /\ createHandler(r, primaryDomain) = endpoint
    /\ req' = r

\* The request is answered without a read.
Answer(resp) ==
    /\ pc' = "done"
    /\ response' = resp
    /\ UNCHANGED <<store, target, primaryDomain, contentPath, baseUri, curUri,
                   origPath, curDepth, attempts, reads, env>>
    /\ UNCHANGED besidesHandler

\* handleServe up to the first await: resolveTarget answers at once unless
\* the target is a pointer; no target gives 503.
HandleServe(r) ==
    /\ Dispatch(r, "serve")
    /\ contentPath' = serveContentPath(r.path)
    /\ IF Len(target) = 0
       THEN /\ pc' = "done"
            /\ response' = ErrorResponse(503, <<"No target configured">>)
            /\ UNCHANGED baseUri
       ELSE IF IsPointer(target)
       THEN /\ pc' = "target"
            /\ UNCHANGED <<baseUri, response>>
       ELSE /\ pc' = "content"
            /\ baseUri' = target
            /\ UNCHANGED response
    /\ UNCHANGED <<store, target, primaryDomain, curUri, origPath, curDepth,
                   attempts, reads, env>>
    /\ UNCHANGED besidesHandler

\* resolveTarget: the pointer read returns; handleServe rejects an empty base.
ResolveTargetRead ==
    /\ pc = "target"
    /\ \E rec \in RecordsAt(target) :
         /\ ReadGives(target, rec)
         /\ target' = configAfterResolve(target, rec)
         /\ IF Len(resolvedTarget(target, rec)) = 0
            THEN /\ pc' = "done"
                 /\ response' = ErrorResponse(503, <<"No target configured">>)
                 /\ UNCHANGED baseUri
            ELSE /\ pc' = "content"
                 /\ baseUri' = resolvedTarget(target, rec)
                 /\ UNCHANGED response
    /\ UNCHANGED <<primaryDomain, req, env, contentPath, curUri, origPath,
                   curDepth, attempts>>
    /\ UNCHANGED besidesHandler

\* handleCustomDomain up to its await: the registry read is issued.
HandleCustomDomain(r) ==
    /\ Dispatch(r, "custom")
    /\ pc' = "domain"
    /\ UNCHANGED <<store, target, primaryDomain, contentPath, baseUri, curUri,
                   origPath, curDepth, attempts, reads, response, env>>
    /\ UNCHANGED besidesHandler

\* handleCustomDomain: the registry read returns.  No mapping gives 404, an
\* invalid one 500; a base that is not a string makes handleContent throw at
\* `baseUri.endsWith`, which handleError answers.
DomainRead ==
    /\ pc = "domain"
    /\ \E rec \in RecordsAt(mappingUri(domainOf(req.host))) :
         LET domain == domainOf(req.host)
             mapping == domainMapping(rec)
         IN  /\ ReadGives(mappingUri(domain), rec)
             /\ CASE mapping.kind = "missing" ->
                       /\ pc' = "done"
                       /\ response' =
                            ErrorResponse(404, <<"Domain not configured: ">> \o domain)
                       /\ UNCHANGED <<baseUri, contentPath>>
                  [] mapping.kind = "invalid" ->
                       /\ pc' = "done"
                       /\ response' =
                            ErrorResponse(500, <<"Invalid domain mapping for: ">>
                                                 \o domain)
                       /\ UNCHANGED <<baseUri, contentPath>>
                  [] mapping.kind = "base" /\ mapping.base.t # "string" ->
                       /\ pc' = "done"
                       /\ response' =
                            handleError(<<"baseUri.endsWith is not a function">>)
                       /\ contentPath' = customContentPath(req.path)
                       /\ UNCHANGED baseUri
                  [] OTHER ->
                       /\ pc' = "content"
                       /\ baseUri' = mapping.base.v
                       /\ contentPath' = customContentPath(req.path)
                       /\ UNCHANGED response
    /\ UNCHANGED <<target, primaryDomain, req, env, curUri, origPath, curDepth,
                   attempts>>
    /\ UNCHANGED besidesHandler

\* The index.html attempt is entered together with the exact attempt, without
\* waiting for it.
Enter_WithIndexAtOnce(u, path) ==
    /\ curUri' = u
    /\ origPath' = path
    /\ curDepth' = 0
    /\ attempts' = attempts \o
                     <<[path |-> path, hops |-> <<u>>, reads |-> <<>>,
                        resp |-> NoResponse],
                       [path |-> path \o <<"/", "index", ".", "html">>,
                        hops |-> <<u \o <<"/", "index", ".", "html">> >>,
                        reads |-> <<>>, resp |-> NoResponse]>>

\* A top-level call resolveByProtocol(client, u, path) is entered.
Enter(u, path) ==
    /\ curUri' = u
    /\ origPath' = path
    /\ curDepth' = 0
    /\ attempts' = Append(attempts,
                          [path |-> path, hops |-> <<u>>, reads |-> <<>>,
                           resp |-> NoResponse])

\* handleContent: the exact attempt, base + path.
HandleContent ==
    /\ pc = "content"
    /\ pc' = "resolve"
    /\ Enter(fullUri(baseUri, contentPath), contentPath)
    /\ UNCHANGED <<store, target, primaryDomain, req, env, contentPath, baseUri,
                   reads, response>>
    /\ UNCHANGED besidesHandler

\* One invocation of resolveByProtocol, with the read it issues.
ResolveByProtocol ==
    /\ pc = "resolve"
    /\ \E rec \in RecordsAt(curUri) :
         LET out == resolveByProtocol(curUri, origPath, curDepth, rec)
             n == Len(attempts)
             readsNow == IF out.read
                         THEN Append(attempts[n].reads, curUri)
                         ELSE attempts[n].reads
         IN  /\ IF out.read
                THEN ReadGives(curUri, rec)
                ELSE rec = NoRecord /\ UNCHANGED <<store, reads>>
             /\ IF out.kind = "call"
                THEN /\ curUri' = out.uri
                     /\ curDepth' = out.depth
                     /\ attempts' =
                          [attempts EXCEPT ![n].reads = readsNow,
                                           ![n].hops = Append(@, out.uri)]
                     /\ UNCHANGED pc
                ELSE /\ pc' = "resolved"
                     /\ attempts' =
                          [attempts EXCEPT ![n].reads = readsNow,
                                           ![n].resp = out.resp]
                     /\ UNCHANGED <<curUri, curDepth>>
    /\ UNCHANGED <<target, primaryDomain, req, env, contentPath, baseUri, origPath,
                   response>>
    /\ UNCHANGED besidesHandler

\* The retry resolves the pointer again instead of using the base it was
\* given.
HandleContentIndex_ResolvesAgain ==
    /\ pc = "resolved"
    /\ Len(attempts) = 1
    /\ TriesIndex(attempts[1].resp, contentPath)
    /\ pc' = "resolve"
    /\ LET again == IF IsPointer(target) /\ target \in DOMAIN store
                    THEN resolvedTarget(target, store[target])
                    ELSE baseUri
       IN  Enter(indexUri(again, contentPath), indexPath(contentPath))
    /\ UNCHANGED <<store, target, primaryDomain, req, env, contentPath, baseUri,
                   reads, response>>
    /\ UNCHANGED besidesHandler

\* handleContent: the exact attempt ended 404 on a path without a file
\* extension; retry with index.html.
HandleContentIndex ==
    /\ pc = "resolved"
    /\ Len(attempts) = 1
    /\ TriesIndex(attempts[1].resp, contentPath)
    /\ pc' = "resolve"
    /\ Enter(indexUri(baseUri, contentPath), indexPath(contentPath))
    /\ UNCHANGED <<store, target, primaryDomain, req, env, contentPath, baseUri,
                   reads, response>>
    /\ UNCHANGED besidesHandler

\* handleContent returns the response of its last attempt.
HandleContentReturn ==
    /\ pc = "resolved"
    /\ Len(attempts) = 2 \/ ~TriesIndex(attempts[1].resp, contentPath)
    /\ pc' = "done"
    /\ response' = attempts[Len(attempts)].resp
    /\ UNCHANGED <<store, target, primaryDomain, req, env, contentPath, baseUri,
                   curUri, origPath, curDepth, attempts, reads>>
    /\ UNCHANGED besidesHandler

\* handleDomainCheck up to its await: 400 without a domain parameter.
HandleDomainCheck(r) ==
    /\ Dispatch(r, "domain-check")
    /\ IF Len(r.domain) = 0
       THEN /\ pc' = "done"
            /\ response' = handleDomainCheck(r.domain, NoRecord)
       ELSE /\ pc' = "check"
            /\ UNCHANGED response
    /\ UNCHANGED <<store, target, primaryDomain, contentPath, baseUri, curUri,
                   origPath, curDepth, attempts, reads, env>>
    /\ UNCHANGED besidesHandler

\* handleDomainCheck: the registry read returns.
DomainCheckRead ==
    /\ pc = "check"
    /\ \E rec \in RecordsAt(mappingUri(ToLowerCase(req.domain))) :
         /\ ReadGives(mappingUri(ToLowerCase(req.domain)), rec)
         /\ response' = handleDomainCheck(req.domain, rec)
    /\ pc' = "done"
    /\ UNCHANGED <<target, primaryDomain, req, env, contentPath, baseUri, curUri,
                   origPath, curDepth, attempts>>
    /\ UNCHANGED besidesHandler

\* The endpoints that answer from the configuration alone.
HandleTarget(r) == Dispatch(r, "target") /\ Answer(handleTarget(target))

HandleInfo(r) == Dispatch(r, "info") /\ Answer(handleInfo(target))

HandlePubkey(r) == Dispatch(r, "pubkey") /\ Answer(handlePubkey)

\* Every other path on the primary domain.
HandleUnknown(r) == Dispatch(r, "unknown") /\ Answer(UnknownEndpoint)

\* handleHealth up to its await: the backend's health endpoint is fetched.
HandleHealth(r) ==
    /\ Dispatch(r, "health")
    /\ pc' = "health"
    /\ UNCHANGED <<store, target, primaryDomain, contentPath, baseUri, curUri,
                   origPath, curDepth, attempts, reads, response, env>>
    /\ UNCHANGED besidesHandler

\* handleHealth: the fetch returned or failed, at time now.
HealthFetched(backendOk, now) ==
    /\ pc = "health"
    /\ pc' = "done"
    /\ env' = <<backendOk, now>>
    /\ response' = handleHealth(backendOk, now)
    /\ UNCHANGED <<store, target, primaryDomain, req, contentPath, baseUri, curUri,
                   origPath, curDepth, attempts, reads>>
    /\ UNCHANGED besidesHandler

\* A request arrives and runs to its first await.
Arrive(r) ==
    \/ HandleServe(r)
    \/ HandleCustomDomain(r)
    \/ HandleDomainCheck(r)
    \/ HandleTarget(r)
    \/ HandleInfo(r)
    \/ HandlePubkey(r)
    \/ HandleHealth(r)
    \/ HandleUnknown(r)

\* A request resumes after an await and runs to its next one.
Resume ==
    \/ ResolveTargetRead
    \/ DomainRead
    \/ HandleContent
    \/ ResolveByProtocol
    \/ HandleContentIndex
    \/ HandleContentReturn
    \/ DomainCheckRead
    \/ \E backendOk \in BOOLEAN, now \in Times : HealthFetched(backendOk, now)

Next ==
    \/ \E r \in Requests : Arrive(r)
    \/ Resume

Spec == Init /\ [][Next]_vars

(***************************************************************************)
(* The gateway: several requests over one store and one configuration      *)
(*                                                                         *)
(* The handler runs on a single-threaded event loop: a request runs until  *)
(* it awaits a read or the health fetch, and then another request may      *)
(* arrive or resume.  One request is running and one may be parked at its  *)
(* await; an answered request is recorded and its slot is free for the     *)
(* next one.  The store is chosen whole at the start.                      *)
(***************************************************************************)

\* How many requests the gateway is given.
MaxRequests == 3

\* The URIs the requests of the gateway can reach.
RegistryUri == mappingUri(ShopDomain)
LinkL1 == Uri("link", <<"s", "/", "l1">>)
GatewayUris ==
    {RegistryUri, PointerTarget, BlobUri, LinkL1}
    \cup {b \o p : b \in {Uri("link", <<"s", "/">>), Uri("blob", <<"s", "/">>),
                          PointerTarget \o <<"/">>},
                   p \in {<<>>, <<"index", ".", "html">>, <<"l1">>,
                          <<"l1", "/", "index", ".", "html">>}}

\* The stores: every choice of the registry record and of the pointer record
\* with the records of link://s/l1 and blob://s/l1 among those listed, over
\* fixed content.
StoreWith(registry, pointer, link, blob) ==
    (RegistryUri :> registry) @@ (PointerTarget :> pointer) @@ (LinkL1 :> link)
    @@ (Uri("blob", <<"s", "/", "l1">>) :> blob)
    @@ (BlobUri :> Bytes(<<1, 2>>))
    @@ (Uri("link", <<"s", "/", "l1", "/", "index", ".", "html">>) :> Str(BlobUri))
    @@ [u \in GatewayUris |-> NoRecord]

GatewayStores ==
    {StoreWith(registry, c[1], c[2], c[3]) :
        registry \in {NoRecord, Str(Uri("blob", <<"s", "/">>)), Str(PointerTarget),
                      Envelope(Str(<<>>))},
        c \in {<<NoRecord, NoRecord, NoRecord>>,
               <<Str(Uri("blob", <<"s", "/">>)), Str(BlobUri), Str(<<"hello">>)>>,
               <<Envelope(Str(<<>>)), Str(LinkL1), Str(<<"hello">>)>>}}

\* The configurations of the gateway; the second host is a custom domain of
\* each.
GatewayConfigs ==
    {Config(Uri("link", <<"s", "/">>), <<>>),
     Config(Uri("blob", <<"s", "/">>), <<>>),
     Config(PointerTarget, FireCatDomain),
     Config(<<>>, FireCatDomain)}

\* The requests of the gateway: one content path under /api/v1/serve/ and at
\* the root of the custom domain, the API endpoints and an unknown path.
GatewayRequests ==
    {Request(LocalHost, ApiPath(<<"serve", "/", "l1">>), <<>>),
     Request(ShopHost, <<"/", "l1">>, <<>>),
     Request(LocalHost, <<"/", "l1">>, <<>>),
     Request(LocalHost, ApiPath(<<"domain-check">>), <<"Shop", ".", "io">>)}
    \cup {Request(LocalHost, ApiPath(<<e>>), <<>>) :
            e \in {"health", "info", "pubkey", "target"}}

InitGateway ==
    /\ store \in GatewayStores
    /\ \E c \in GatewayConfigs :
         target = c.target /\ primaryDomain = c.primaryDomain
    /\ FrameIs(IdleFrame)
    /\ parked = IdleFrame
    /\ served = {}
    /\ handled = 0
    /\ PathIdle
    /\ DecryptIdle
    /\ TargetIdle
    /\ HeadersIdle
    /\ LegacyIdle

\* The number of requests that have arrived and are not answered.
InFlight ==
    (IF pc # "idle" THEN 1 ELSE 0) + (IF parked.pc # "idle" THEN 1 ELSE 0)

\* The running request becomes f.
FrameBecomes(f) ==
    /\ pc' = f.pc
    /\ contentPath' = f.contentPath
    /\ baseUri' = f.baseUri
    /\ curUri' = f.curUri
    /\ origPath' = f.origPath
    /\ curDepth' = f.curDepth
    /\ attempts' = f.attempts
    /\ reads' = f.reads
    /\ response' = f.response
    /\ req' = f.req
    /\ env' = f.env

\* Where a request awaits: the reads and the health fetch.
AwaitPoints == {"target", "domain", "check", "health", "resolve"}

\* The running request awaits and the event loop turns to the other slot: a
\* parked request resumes there, or the slot is free for an arrival.
Switch ==
    /\ pc \in AwaitPoints \/ (pc = "idle" /\ parked.pc # "idle")
    /\ parked' = Frame
    /\ FrameBecomes(parked)
    /\ UNCHANGED <<store, target, primaryDomain, served, handled>>
    /\ UNCHANGED besidesGateway

\* The response of the running request is sent; its locals are gone.
Complete ==
    /\ pc = "done"
    /\ served' = served \cup {[req |-> req, env |-> env, response |-> response]}
    /\ handled' = handled + 1
    /\ FrameBecomes(IdleFrame)
    /\ UNCHANGED <<store, target, primaryDomain, parked>>
    /\ UNCHANGED besidesGateway

NextGateway ==
    \/ \E r \in GatewayRequests : handled + InFlight < MaxRequests /\ Arrive(r)
    \/ Resume
    \/ Switch
    \/ Complete

SpecGateway == InitGateway /\ [][NextGateway]_vars

(***************************************************************************)
(* Properties of the protocol resolver and the content handler             *)
(***************************************************************************)

\* An attempt whose resolveByProtocol call has returned.
Completed(a) == a.resp.status # 0

\* The URI the link:// record at x holds in store st, <<>> when st has no
\* link:// record with a string payload at x.
LinkTarget(st, x) ==
    IF /\ x \in DOMAIN st
       /\ getProtocol(x) = "link"
       /\ Found(st[x])
       /\ unwrapData(st[x]).t = "string"
    THEN unwrapData(st[x]).v
    ELSE <<>>

\* Following link records from x leads to goal within fuel hops.
RECURSIVE ReturnsTo(_, _, _, _)
ReturnsTo(st, x, goal, fuel) ==
    /\ fuel > 0
    /\ LinkTarget(st, x) # <<>>
    /\ \/ LinkTarget(st, x) = goal
       \/ ReturnsTo(st, LinkTarget(st, x), goal, fuel - 1)

\* The link:// record at u lies on a cycle of link:// records.
OnLinkCycle(st, u) == ReturnsTo(st, u, u, Cardinality(DOMAIN st))

\* C1: resolving a link:// record that lies on a cycle of link:// records
\* ends, after at most MAX_LINK_DEPTH + 1 reads, as loop-detected (508),
\* never as not-found or 200; no call reads more or goes deeper than that.
C1_CycleEndsLoopDetected ==
    /\ curDepth <= MAX_LINK_DEPTH + 1
    /\ \A k \in 1..Len(attempts) :
         /\ Len(attempts[k].reads) <= MAX_LINK_DEPTH + 1
         /\ (Completed(attempts[k]) /\ OnLinkCycle(store, attempts[k].hops[1]))
              => attempts[k].resp.status = 508

\* A call on a URI that lies on a cycle of two link records has returned.
C1_Witness ==
    \E k \in 1..Len(attempts) :
       /\ Completed(attempts[k])
       /\ OnLinkCycle(store, attempts[k].hops[1])
       /\ LinkTarget(store, attempts[k].hops[1]) # attempts[k].hops[1]
       /\ attempts[k].resp.status = 508

\* C2: a string read from the store is resolved as a URI if and only if the
\* URI it was read from has scheme link://; a string stored under another
\* scheme is the body of a 200 response and the last read of its call.
C2_OnlyLinkIsFollowed ==
    \A k \in 1..Len(attempts) :
       LET a == attempts[k]
       IN  /\ \A i \in 1..Len(a.reads) :
                LET u == a.reads[i]
                    d == unwrapData(store[u])
                IN  /\ u = a.hops[i]
                    /\ (Found(store[u]) /\ d.t = "string") =>
                         /\ (i < Len(a.hops) /\ a.hops[i+1] = d.v)
                               <=> getProtocol(u) = "link"
                         /\ getProtocol(u) # "link" =>
                               /\ i = Len(a.reads)
                               /\ i = Len(a.hops)
                               /\ a.resp.status = 200
                               /\ a.resp.body = d
           /\ \A i \in 1..(Len(a.hops) - 1) :
                /\ getProtocol(a.hops[i]) = "link"
                /\ i <= Len(a.reads)
                /\ a.hops[i+1] = LinkTarget(store, a.hops[i])

\* A URI-shaped string stored under immutable://, mutable:// or blob:// has
\* been served.
C2_Witness ==
    \E k \in 1..Len(attempts) :
       LET a == attempts[k]
           u == a.reads[Len(a.reads)]
       IN  /\ Completed(a)
           /\ Len(a.reads) > 0
           /\ getProtocol(u) \in {"immutable", "mutable", "blob"}
           /\ Found(store[u])
           /\ unwrapData(store[u]).t = "string"
           /\ getProtocol(unwrapData(store[u]).v) = "link"
           /\ a.resp.status = 200

\* The elements of a sequence.
Range(s) == {s[i] : i \in 1..Len(s)}

\* C4: only a not-found exact attempt is retried with index.html; an exact
\* attempt that ends as loop-detected (508), invalid link value (500) or
\* unsupported scheme (400) is the response, and no index.html URI is read.
C4_OnlyNotFoundRetries ==
    /\ Len(attempts) <= 2
    /\ Len(attempts) = 2 => attempts[1].resp.status = 404
    /\ (pc = "done" /\ Len(attempts) >= 1
          /\ attempts[1].resp.status \in {508, 500, 400}) =>
         /\ Len(attempts) = 1
         /\ response = attempts[1].resp
         /\ indexUri(baseUri, contentPath) \notin Range(reads)

\* A request for a path without extension whose exact attempt was
\* loop-detected has been answered.
C4_Witness ==
    /\ pc = "done"
    /\ Len(attempts) = 1
    /\ attempts[1].resp.status = 508
    /\ ~hasFileExtension(contentPath)

\* The URIs of the claim about handleContent, written out: the base with one
\* "/" at its end, then the path; the path without its trailing "/", then
\* "/index.html".
SlashEnded(b) == IF Len(b) > 0 /\ b[Len(b)] = "/" THEN b ELSE b \o <<"/">>
WithoutTrailingSlash(p) ==
    IF Len(p) > 0 /\ p[Len(p)] = "/" THEN SubSeq(p, 1, Len(p) - 1) ELSE p
ExactUriOf(b, p) == SlashEnded(b) \o p
IndexUriOf(b, p) ==
    SlashEnded(b) \o WithoutTrailingSlash(p)
       \o (IF WithoutTrailingSlash(p) = <<>> THEN <<>> ELSE <<"/">>)
       \o <<"index", ".", "html">>
LastSegmentHasExtension(p) ==
    \E i \in 1..Len(p) : p[i] = "." /\ \A j \in i..Len(p) : p[j] # "/"

\* C5: the exact URI is tried first; the index.html URI is tried only after
\* the exact attempt ended not-found on a path whose last segment has no
\* extension; there is at most one retry and its response is the response
\* of the request; a missing record with an extension is a 404, not retried.
C5_ExactThenIndexOnce ==
    /\ Len(attempts) <= 2
    /\ Len(attempts) >= 1 =>
         /\ attempts[1].hops[1] = ExactUriOf(baseUri, contentPath)
         /\ attempts[1].path = contentPath
    /\ Len(attempts) = 2 =>
         /\ attempts[1].resp.status = 404
         /\ ~LastSegmentHasExtension(contentPath)
         /\ attempts[2].hops[1] = IndexUriOf(baseUri, contentPath)
    /\ IndexUriOf(baseUri, contentPath) \in Range(reads) =>
         /\ Len(attempts) = 2
         /\ IndexUriOf(baseUri, contentPath) \notin Range(attempts[1].reads)
    /\ (pc = "done" /\ Len(attempts) = 2) =>
         /\ response = attempts[2].resp
         /\ attempts[2].resp.status = 404 => response.status = 404
    /\ (pc = "done" /\ Len(attempts) >= 1 /\ LastSegmentHasExtension(contentPath)
          /\ attempts[1].resp.status = 404) =>
         /\ Len(attempts) = 1
         /\ response.status = 404

\* Both the exact attempt and the index.html retry ended not-found.
C5_Witness ==
    /\ pc = "done"
    /\ Len(attempts) = 2
    /\ attempts[2].resp.status = 404
    /\ response.status = 404
    /\ Len(contentPath) > 0

\* The call went link:// record -> link:// record -> record under blob://,
\* immutable:// or mutable://, and has returned.
TwoLinkChain(a) ==
    /\ Completed(a)
    /\ Len(a.hops) = 3
    /\ getProtocol(a.hops[1]) = "link"
    /\ getProtocol(a.hops[2]) = "link"
    /\ getProtocol(a.hops[3]) \in {"blob", "immutable", "mutable"}

\* C6, as stated, for chains whose final record holds a value the resolver
\* does not take for a missing record: for a request path p that resolves
\* link -> link -> blob/immutable/mutable the response is 200, its body is
\* the unwrapped payload of the final record, each record of the chain is
\* read exactly once, and Content-Type is the type of p.
C6_Original ==
    (Len(attempts) >= 1 /\ TwoLinkChain(attempts[1])
       /\ Len(attempts[1].reads) = 3 /\ Found(store[attempts[1].hops[3]])) =>
      LET a == attempts[1]
      IN  /\ a.resp.status = 200
          /\ a.resp.body = unwrapData(store[a.hops[3]])
          /\ a.reads = a.hops
          /\ a.resp.ctype = getContentTypeFromUri(contentPath)

\* C6, amended: on such a chain each record is read exactly once.  A final
\* record whose stored value is falsy is answered 404.  Otherwise the
\* response is 200; a string or byte-array payload is the body and its
\* Content-Type is the type of the request path p when p is not empty, and
\* for an empty p the type of the empty path under blob:// and of the final
\* URI under immutable:// and mutable://; every other payload is served as
\* its JSON text with Content-Type application/json.
C6_ChainServedByPayloadKind ==
    \A k \in 1..Len(attempts) :
       TwoLinkChain(attempts[k]) =>
         LET a == attempts[k]
             last == a.hops[3]
             d == unwrapData(store[last])
         IN  /\ a.reads = a.hops
             /\ ~Found(store[last]) => a.resp.status = 404
             /\ Found(store[last]) =>
                  /\ a.resp.status = 200
                  /\ d.t \in {"string", "bytes"} =>
                       /\ a.resp.body = d
                       /\ Len(a.path) > 0 =>
                            a.resp.ctype = getContentTypeFromUri(a.path)
                       /\ (Len(a.path) = 0 /\ getProtocol(last) = "blob") =>
                            a.resp.ctype = getContentTypeFromUri(<<>>)
                       /\ (Len(a.path) = 0 /\ getProtocol(last) # "blob") =>
                            a.resp.ctype = getContentTypeFromUri(last)
                  /\ d.t \notin {"string", "bytes"} =>
                       /\ a.resp.body = [t |-> "json", v |-> <<d>>]
                       /\ a.resp.ctype = "application/json; charset=utf-8"

\* A chain from a path with extension js to a string under a URI with
\* extension css has been served with the type of the path.
C6_Witness ==
    /\ pc = "done"
    /\ Len(attempts) = 1
    /\ TwoLinkChain(attempts[1])
    /\ hasFileExtension(contentPath)
    /\ attempts[1].hops[3] = ImmutableUri
    /\ unwrapData(store[ImmutableUri]).t = "string"
    /\ response.status = 200
    /\ response.ctype = MIME_TYPES.js

(***************************************************************************)
(* resolve.ts: resolvePath                                                 *)
(***************************************************************************)

\* An optional property: absent (undefined), or present with value v.
Absent == [has |-> FALSE, v |-> <<>>]
Present(v) == [has |-> TRUE, v |-> v]

\* `opt ?? dflt`.
Nullish(opt, dflt) == IF opt.has THEN opt.v ELSE dflt

IndexHtml == <<"index", ".", "html">>

\* `manifest.files[key]`: the entry listed under key; for a key the manifest
\* does not list, the property the files object inherits under that name
\* from Object.prototype, and undefined when it inherits none.
filesGet(files, key) ==
    IF key \in files THEN [kind |-> "entry", key |-> key]
    ELSE IF Len(key) = 1 /\ key[1] \in ObjectPrototypeKeys
    THEN [kind |-> "inherited", key |-> key]
    ELSE [kind |-> "undefined", key |-> <<>>]

\* The truthiness of `manifest.files[key]`: entries are objects and
\* inherited properties are functions.
filesHas(files, key) == filesGet(files, key).kind # "undefined"

\* `manifest.routing?.entrypoint ?? "index.html"`.
entrypointOf(m) ==
    IF m.routing.has THEN Nullish(m.routing.v.entrypoint, IndexHtml) ELSE IndexHtml

\* `manifest.routing?.spa`.
spaOf(m) == m.routing.has /\ m.routing.v.spa

\* The path without one leading "/"; the entrypoint for an empty path.
normalizedPath(path, m) ==
    LET stripped == IF StartsWith(path, <<"/">>) THEN Tail(path) ELSE path
    IN  IF Len(stripped) = 0 THEN entrypointOf(m) ELSE stripped

\* The directory index of a normalised path.
directoryIndex(np) ==
    IF EndsWith(np, "/") THEN np \o IndexHtml ELSE np \o <<"/">> \o IndexHtml

\* A ResolvedPath, and the ResolveError NOT_FOUND.
ResolvedPath(files, filePath, fallback) ==
    [ok |-> TRUE, filePath |-> filePath, file |-> filesGet(files, filePath),
     fallback |-> fallback, code |-> ""]
NotFound ==
    [ok |-> FALSE, filePath |-> <<>>, file |-> [kind |-> "undefined", key |-> <<>>],
     fallback |-> FALSE, code |-> "NOT_FOUND"]

\* The directory index is flagged as a fallback, too.
resolvePath_FlagsDirectoryIndex(path, m) ==
    LET np == normalizedPath(path, m)
    IN  IF filesHas(m.files, np)
        THEN ResolvedPath(m.files, np, FALSE)
        ELSE IF filesHas(m.files, directoryIndex(np))
        THEN ResolvedPath(m.files, directoryIndex(np), TRUE)
        ELSE IF spaOf(m) /\ filesHas(m.files, entrypointOf(m))
        THEN ResolvedPath(m.files, entrypointOf(m), TRUE)
        ELSE NotFound

\* resolvePath(path, manifest).
resolvePath(path, m) ==
    LET np == normalizedPath(path, m)
    IN  IF filesHas(m.files, np)
        THEN ResolvedPath(m.files, np, FALSE)
        ELSE IF filesHas(m.files, directoryIndex(np))
        THEN ResolvedPath(m.files, directoryIndex(np), FALSE)
        ELSE IF spaOf(m) /\ filesHas(m.files, entrypointOf(m))
        THEN ResolvedPath(m.files, entrypointOf(m), TRUE)
        ELSE NotFound

\* Bounds of the manifests: how many of the candidate files a manifest lists.
MaxFiles == 3

\* The files a manifest may list.
CandidateFiles ==
    {IndexHtml,
     <<"docs", "/", "index", ".", "html">>,
     <<"docs">>,
     <<"app", ".", "html">>,
     <<"unknown", "/", "index", ".", "html">>}

\* manifest.routing: absent, or {spa, entrypoint} with either left out.
Routings ==
    {Absent} \cup
    {Present([spa |-> spa, entrypoint |-> e]) :
        spa \in BOOLEAN, e \in {Absent, Present(<<"app", ".", "html">>)}}

Manifests ==
    {[files |-> f, routing |-> r] :
        f \in {x \in SUBSET CandidateFiles : Cardinality(x) <= MaxFiles},
        r \in Routings}

\* Request paths.
RequestPaths ==
    {<<>>, <<"/">>,
     <<"/", "docs">>, <<"/", "docs", "/">>, <<"docs">>,
     <<"/", "unknown">>,
     <<"/", "index", ".", "html">>,
     <<"/", "app", ".", "html">>,
     <<"/", "constructor">>}

\* No request is served.
HandlerIdle ==
    /\ store = <<>>
    /\ target = <<>>
    /\ pc = "off"
    /\ contentPath = <<>>
    /\ baseUri = <<>>
    /\ curUri = <<>>
    /\ origPath = <<>>
    /\ curDepth = 0
    /\ attempts = <<>>
    /\ reads = <<>>
    /\ response = NoResponse
    /\ primaryDomain = <<>>
    /\ req = NoRequest
    /\ env = <<>>
    /\ parked = IdleFrame
    /\ served = {}
    /\ handled = 0

InitPath ==
    /\ HandlerIdle
    /\ reqPath \in RequestPaths
    /\ manifest \in Manifests
    /\ resolved = Pending
    /\ DecryptIdle
    /\ TargetIdle
    /\ HeadersIdle
    /\ LegacyIdle

\* The call resolvePath(reqPath, manifest) returns or throws.
ResolvePath ==
    /\ resolved = Pending
    /\ resolved' = resolvePath(reqPath, manifest)
    /\ UNCHANGED <<reqPath, manifest, besidesPath>>

NextPath == ResolvePath

SpecPath == InitPath /\ [][NextPath]_vars

\* The steps of the claim, over the keys the manifest lists.
Listed(m, key) == key \in m.files
StepsOutcome(path, m) ==
    LET stripped == IF Len(path) > 0 /\ path[1] = "/" THEN Tail(path) ELSE path
        np == IF stripped = <<>>
              THEN (IF m.routing.has /\ m.routing.v.entrypoint.has
                    THEN m.routing.v.entrypoint.v ELSE IndexHtml)
              ELSE stripped
        idx == IF np[Len(np)] = "/" THEN np \o IndexHtml
               ELSE np \o <<"/">> \o IndexHtml
        entry == IF m.routing.has /\ m.routing.v.entrypoint.has
                 THEN m.routing.v.entrypoint.v ELSE IndexHtml
    IN  IF Listed(m, np) THEN <<"file", np>>
        ELSE IF Listed(m, idx) THEN <<"file", idx>>
        ELSE IF m.routing.has /\ m.routing.v.spa /\ Listed(m, entry)
        THEN <<"file", entry>>
        ELSE <<"NOT_FOUND", <<>> >>

\* What resolvePath did: the file path it returned, or the code it threw.
Outcome(r) == IF r.ok THEN <<"file", r.filePath>> ELSE <<r.code, <<>> >>

\* C3: resolvePath normalises the path, then takes the first of: the exact
\* key of manifest.files, the directory index (no doubled slash), the listed
\* SPA entrypoint when routing.spa is true, NOT_FOUND.
C3_Original ==
    resolved # Pending => Outcome(resolved) = StepsOutcome(reqPath, manifest)

\* The same, for requests whose normalised path names no property that
\* objects inherit.
C3_HoldsOffInheritedNames ==
    (resolved # Pending /\ reqPath # <<"/", "constructor">>) =>
        Outcome(resolved) = StepsOutcome(reqPath, manifest)

(***************************************************************************)
(* resolve.ts: decryption                                                  *)
(*                                                                         *)
(* Byte arrays are sequences of 0..255 and hex strings are sequences of    *)
(* characters: 0..15 are the hex digits, 16 is any other character.  The   *)
(* Web Crypto primitives are small stand-ins that keep what the code       *)
(* relies on: the lengths of keys, nonces and tags, a key agreement that   *)
(* gives both sides the same secret, and an authenticated cipher whose     *)
(* decryption fails when the key, the nonce, the ciphertext or the tag is  *)
(* not the one used to encrypt.                                            *)
(***************************************************************************)

\* What a call returned, or the exception it threw.
Ok(v) == [ok |-> TRUE, v |-> v, name |-> "", code |-> ""]
Throw(name, code) == [ok |-> FALSE, v |-> <<>>, name |-> name, code |-> code]

\* new DecryptError(message, code).
DecryptError(code) == Throw("DecryptError", code)

\* hexToBytes: hex.length / 2 bytes (a Uint8Array length is truncated), each
\* parseInt(two characters, 16): NaN is stored as 0, and parseInt stops at
\* the first character that is no hex digit.
hexToBytes(hex) ==
    [i \in 1..(Len(hex) \div 2) |->
        LET hi == hex[2*i - 1]
            lo == hex[2*i]
        IN  IF hi > 15 THEN 0 ELSE IF lo > 15 THEN hi ELSE 16 * hi + lo]

\* bytesToHex: two lower-case hex digits per byte.
bytesToHex(bytes) ==
    [k \in 1..(2 * Len(bytes)) |->
        IF k % 2 = 1 THEN bytes[(k + 1) \div 2] \div 16 ELSE bytes[k \div 2] % 16]

\* Lengths in bytes: an X25519 key, an AES-GCM nonce, the shortest wrapped
\* key (ephemeral public key + nonce), an AES-GCM tag.
KeyLength == 32
NonceLength == 12
MinWrappedLength == 44
TagLength == 16

\* A 32-byte key whose first byte is b.
KeyBytes(b) == [i \in 1..KeyLength |-> IF i = 1 THEN b ELSE 0]

\* Key agreement in the multiplicative group modulo DHPrime.
DHPrime == 251
DHBase == 6

RECURSIVE PowMod(_, _, _)
PowMod(b, e, m) == IF e = 0 THEN 1 ELSE (b * PowMod(b, e - 1, m)) % m

\* The public key of a private key, and the secret two parties share.
x25519Public(privateKey) == KeyBytes(PowMod(DHBase, privateKey[1], DHPrime))
x25519Shared(privateKey, publicKey) ==
    KeyBytes(PowMod(publicKey[1], privateKey[1], DHPrime))

\* The sum of (2(i + k) + 1) * s[i] over the first n bytes of s.
RECURSIVE WeightedSum(_, _, _)
WeightedSum(s, k, n) ==
    IF n = 0 THEN 0 ELSE (2 * (n + k) + 1) * s[n] + WeightedSum(s, k, n - 1)

\* The length of the HKDF info string "appsfirecat-content-key".
HkdfInfoLength == 23

\* HKDF-SHA-256 with the protocol's salt and info: 32 key bytes.
hkdf(sharedSecret) ==
    [i \in 1..KeyLength |->
        (WeightedSum(sharedSecret, 0, Len(sharedSecret)) * (2 * i + 1)
           + HkdfInfoLength + i) % 256]

\* AES-GCM: the key stream, the tag over key, nonce and ciphertext, and
\* encryption (ciphertext followed by the tag).
gcmStream(key, iv, i) ==
    (key[((i - 1) % Len(key)) + 1] + iv[((i - 1) % Len(iv)) + 1] + i) % 256
gcmTag(key, iv, ct) ==
    [j \in 1..TagLength |->
        (WeightedSum(key, 0, Len(key)) + WeightedSum(iv, 0, Len(iv))
           + WeightedSum(ct, j, Len(ct)) + j) % 256]
gcmEncrypt(key, iv, pt) ==
    LET ct == [i \in 1..Len(pt) |-> (pt[i] + gcmStream(key, iv, i)) % 256]
    IN  ct \o gcmTag(key, iv, ct)

\* crypto.subtle.decrypt({name: "AES-GCM", iv}, key, data): OperationError
\* unless data ends with the tag of what precedes it.
subtleDecrypt(key, iv, data) ==
    LET n == Len(data) - TagLength
        ct == SubSeq(data, 1, n)
    IN  IF n < 0 \/ SubSeq(data, n + 1, Len(data)) # gcmTag(key, iv, ct)
        THEN Throw("OperationError", "")
        ELSE Ok([i \in 1..n |-> (ct[i] + 256 - gcmStream(key, iv, i)) % 256])

\* crypto.subtle.importKey("raw", bytes, {name: "AES-GCM"}, ...): DataError
\* unless the key has 128, 192 or 256 bits.
importAesKey(bytes) ==
    IF Len(bytes) \in {16, 24, 32} THEN Ok(bytes) ELSE Throw("DataError", "")

\* x25519: both keys are imported in raw format, the private key with
\* usages ["deriveBits"].  Web Cryptography defines the raw format of X25519
\* for public keys only and rejects a raw import that has usages with a
\* SyntaxError; raw = "accepted" is an importKey that takes the raw private
\* scalar, which is what the function is written for.
x25519(privateKey, publicKey, raw) ==
    IF raw = "rejected" THEN Throw("SyntaxError", "")
    ELSE IF Len(privateKey) # KeyLength \/ Len(publicKey) # KeyLength
    THEN Throw("DataError", "")
    ELSE Ok(x25519Shared(privateKey, publicKey))

\* deriveAesKey.
deriveAesKey(sharedSecret) == hkdf(sharedSecret)

\* decryptAesGcm: the exception of crypto.subtle.decrypt is not caught.
decryptAesGcm(ciphertext, key, nonce) == subtleDecrypt(key, nonce, ciphertext)

\* `encryption.keys?.[hostPubkey]`, undefined when there is none.
keysGet(encryption, hostPubkey) ==
    IF encryption.keys.has /\ hostPubkey \in DOMAIN encryption.keys.v
    THEN Present(encryption.keys.v[hostPubkey])
    ELSE Absent

\* The truthiness of an optional string.
NonEmpty(opt) == opt.has /\ Len(opt.v) > 0

\* The single wrapped key is looked at before the multi-host keys.
getWrappedKey_LegacyFirst(encryption, hostPubkey) ==
    IF /\ NonEmpty(encryption.wrappedKey)
       /\ \/ ~NonEmpty(encryption.hostPubkey)
          \/ encryption.hostPubkey.v = hostPubkey
    THEN Present(encryption.wrappedKey.v)
    ELSE IF NonEmpty(keysGet(encryption, hostPubkey))
    THEN keysGet(encryption, hostPubkey)
    ELSE Absent

\* getWrappedKey; Absent is null.
getWrappedKey(encryption, hostPubkey) ==
    IF NonEmpty(keysGet(encryption, hostPubkey))
    THEN keysGet(encryption, hostPubkey)
    ELSE IF /\ NonEmpty(encryption.wrappedKey)
            /\ encryption.hostPubkey.has
            /\ encryption.hostPubkey.v = hostPubkey
    THEN Present(encryption.wrappedKey.v)
    ELSE IF NonEmpty(encryption.wrappedKey) /\ ~NonEmpty(encryption.hostPubkey)
    THEN Present(encryption.wrappedKey.v)
    ELSE Absent

\* unwrapContentKey.
unwrapContentKey(wrappedKeyHex, hostPrivateKeyHex, raw) ==
    LET privateKeyBytes == hexToBytes(hostPrivateKeyHex)
        wrappedBytes == hexToBytes(wrappedKeyHex)
        ephemeralPubkey == SubSeq(wrappedBytes, 1, KeyLength)
        nonce == SubSeq(wrappedBytes, KeyLength + 1, MinWrappedLength)
        ciphertext == SubSeq(wrappedBytes, MinWrappedLength + 1, Len(wrappedBytes))
        sharedSecret == x25519(privateKeyBytes, ephemeralPubkey, raw)
        aesKey == deriveAesKey(sharedSecret.v)
        contentKeyBytes == decryptAesGcm(ciphertext, aesKey, nonce)
    IN  IF Len(wrappedBytes) < MinWrappedLength THEN DecryptError("INVALID_KEY")
        ELSE IF ~sharedSecret.ok THEN sharedSecret
        ELSE IF ~contentKeyBytes.ok THEN contentKeyBytes
        ELSE importAesKey(contentKeyBytes.v)

\* The catch block returns what it was given.
decryptContent_FallsBackToInput(encrypted, contentKey) ==
    IF Len(encrypted) < NonceLength THEN DecryptError("INVALID_CONTENT")
    ELSE LET decrypted == subtleDecrypt(contentKey,
                                        SubSeq(encrypted, 1, NonceLength),
                                        SubSeq(encrypted, NonceLength + 1,
                                               Len(encrypted)))
         IN  IF decrypted.ok THEN decrypted ELSE Ok(encrypted)

\* decryptContent.
decryptContent(encrypted, contentKey) ==
    IF Len(encrypted) < NonceLength THEN DecryptError("INVALID_CONTENT")
    ELSE LET nonce == SubSeq(encrypted, 1, NonceLength)
             ciphertext == SubSeq(encrypted, NonceLength + 1, Len(encrypted))
             decrypted == subtleDecrypt(contentKey, nonce, ciphertext)
         IN  IF decrypted.ok THEN decrypted ELSE DecryptError("DECRYPT_FAILED")

\* Only a manifest without encryption configuration passes through.
notEncrypted_AbsentOnly(context) == ~context.manifest.encryption.has

\* `!context.manifest.encryption?.enabled`.
notEncrypted(context) ==
    ~(context.manifest.encryption.has /\ context.manifest.encryption.v.enabled)

(***************************************************************************)
(* The universe of the decryption specification                            *)
(***************************************************************************)

\* The key pairs of the hosts A and B, as bytes and as the hex strings of
\* the configuration.
PrivA == KeyBytes(3)
PrivB == KeyBytes(5)
HostA == bytesToHex(x25519Public(PrivA))
HostB == bytesToHex(x25519Public(PrivB))

\* The content key, two nonces and the file.
ContentKey == [i \in 1..KeyLength |-> (7 * i) % 256]
NonceOne == [i \in 1..NonceLength |-> i]
NonceTwo == [i \in 1..NonceLength |-> 2 * i]
Plaintext == <<104, 105>>

\* A content key wrapped to a host: ephemeral public key, nonce, and the key
\* encrypted under the secret shared with the host.
wrap(key, hostPublic, ephemeralPrivate, nonce) ==
    x25519Public(ephemeralPrivate) \o nonce
       \o gcmEncrypt(hkdf(x25519Shared(ephemeralPrivate, hostPublic)), nonce, key)

\* s with its last element changed.
Tampered(s, modulus) ==
    [i \in 1..Len(s) |-> IF i = Len(s) THEN (s[i] + 1) % modulus ELSE s[i]]

WrappedA == bytesToHex(wrap(ContentKey, x25519Public(PrivA), KeyBytes(7), NonceOne))
WrappedB == bytesToHex(wrap(ContentKey, x25519Public(PrivB), KeyBytes(11), NonceOne))
LegacyB == bytesToHex(wrap(ContentKey, x25519Public(PrivB), KeyBytes(13), NonceTwo))
ShortKey == SubSeq(WrappedB, 1, 80)

\* encryption.keys: absent, or entries for A, B or both; B's entry may be
\* empty, too short, tampered with, or a key wrapped to A.
KeyMaps ==
    {Absent,
     Present(HostA :> WrappedA),
     Present(HostB :> WrappedB),
     Present((HostA :> WrappedA) @@ (HostB :> WrappedB)),
     Present((HostA :> WrappedA) @@ (HostB :> <<>>)),
     Present(HostB :> ShortKey),
     Present(HostB :> Tampered(WrappedB, 16)),
     Present(HostB :> WrappedA)}

\* manifest.encryption.
Encryptions ==
    {Absent} \cup
    {Present([enabled |-> e, keys |-> k, wrappedKey |-> w, hostPubkey |-> h]) :
        e \in BOOLEAN, k \in KeyMaps,
        w \in {Absent, Present(LegacyB), Present(<<>>)},
        h \in {Absent, Present(HostA), Present(HostB), Present(<<>>)}}

\* The gateways: A, B, and B's public key with a private key that is not B's.
Gateways ==
    {[hostPubkey |-> HostA, hostPrivateKey |-> bytesToHex(PrivA)],
     [hostPubkey |-> HostB, hostPrivateKey |-> bytesToHex(PrivB)],
     [hostPubkey |-> HostB, hostPrivateKey |-> bytesToHex(PrivA)]}

\* s with bit b of its byte i flipped.
FlipBit(s, i, b) ==
    [s EXCEPT ![i] = IF (s[i] \div (2 ^ b)) % 2 = 1 THEN s[i] - 2 ^ b
                     ELSE s[i] + 2 ^ b]

\* The file as published (nonce + ciphertext), tampered with, with one bit
\* flipped in the nonce, in the ciphertext and in the tag, cut short, and a
\* file that was never encrypted.
EncryptedFile == NonceTwo \o gcmEncrypt(ContentKey, NonceTwo, Plaintext)
Inputs ==
    {EncryptedFile,
     Tampered(EncryptedFile, 256),
     FlipBit(EncryptedFile, 1, 0),
     FlipBit(EncryptedFile, NonceLength + 1, 7),
     FlipBit(EncryptedFile, Len(EncryptedFile), 3),
     SubSeq(EncryptedFile, 1, 5),
     [i \in 1..30 |-> 65]}

InitDecrypt ==
    /\ HandlerIdle
    /\ PathIdle
    /\ TargetIdle
    /\ HeadersIdle
    /\ LegacyIdle
    /\ encInput \in Inputs
    /\ \E g \in Gateways, e \in Encryptions :
         ctx = [hostPrivateKey |-> g.hostPrivateKey, hostPubkey |-> g.hostPubkey,
                manifest |-> [encryption |-> e]]
    /\ rawImport \in {"rejected", "accepted"}
    /\ dpc = "start"
    /\ selected = Absent
    /\ unwrapped = Pending
    /\ consulted = {}
    /\ output = Pending

\* decrypt, up to its first await: pass-through, or the wrapped key is
\* looked up.
Decrypt ==
    /\ dpc = "start"
    /\ IF notEncrypted(ctx)
       THEN /\ output' = Ok(encInput)
            /\ dpc' = "done"
            /\ UNCHANGED <<selected, consulted>>
       ELSE LET wrappedKey == getWrappedKey(ctx.manifest.encryption.v, ctx.hostPubkey)
            IN  /\ selected' = wrappedKey
                /\ consulted' = consulted \cup {"wrapped keys"}
                /\ IF ~wrappedKey.has
                   THEN /\ output' = DecryptError("NO_KEY_FOR_HOST")
                        /\ dpc' = "done"
                   ELSE /\ dpc' = "unwrap"
                        /\ UNCHANGED output
    /\ UNCHANGED <<encInput, ctx, rawImport, unwrapped, besidesDecrypt>>

\* unwrapContentKey returns the content key or throws.
UnwrapContentKey ==
    /\ dpc = "unwrap"
    /\ LET key == unwrapContentKey(selected.v, ctx.hostPrivateKey, rawImport)
       IN  /\ unwrapped' = key
           /\ consulted' = consulted \cup {"private key"}
           /\ IF key.ok
              THEN dpc' = "content" /\ UNCHANGED output
              ELSE dpc' = "done" /\ output' = key
    /\ UNCHANGED <<encInput, ctx, rawImport, selected, besidesDecrypt>>

\* decryptContent returns the plaintext or throws.
DecryptContent ==
    /\ dpc = "content"
    /\ output' = decryptContent(encInput, unwrapped.v)
    /\ dpc' = "done"
    /\ UNCHANGED <<encInput, ctx, rawImport, selected, unwrapped, consulted,
                   besidesDecrypt>>

NextDecrypt ==
    \/ Decrypt
    \/ UnwrapContentKey
    \/ DecryptContent

SpecDecrypt == InitDecrypt /\ [][NextDecrypt]_vars

(***************************************************************************)
(* Properties of decryption                                                *)
(***************************************************************************)

\* manifest.encryption.enabled is true.
Enabled ==
    /\ dpc # "off"
    /\ ctx.manifest.encryption.has
    /\ ctx.manifest.encryption.v.enabled

\* data is nonce + ciphertext + tag of pt under key.
IsSealOf(data, key, pt) ==
    /\ Len(data) >= NonceLength + TagLength
    /\ data = SubSeq(data, 1, NonceLength)
                \o gcmEncrypt(key, SubSeq(data, 1, NonceLength), pt)

\* wrapped is key wrapped to the public key of privateKey.
IsWrapOf(wrapped, privateKey, key) ==
    /\ Len(wrapped) >= MinWrappedLength + TagLength
    /\ Len(privateKey) = KeyLength
    /\ SubSeq(wrapped, MinWrappedLength + 1, Len(wrapped)) =
         gcmEncrypt(hkdf(x25519Shared(privateKey, SubSeq(wrapped, 1, KeyLength))),
                    SubSeq(wrapped, KeyLength + 1, MinWrappedLength), key)

\* C7: with encryption enabled, decrypt returns only a plaintext whose
\* authenticated encryption under the unwrapped content key is its input,
\* the key being the one the selected wrapped key holds for the host's
\* private key; in every other case it throws, and it never returns its
\* input.
C7_FailsClosed ==
    (Enabled /\ dpc = "done") =>
       \/ ~output.ok
       \/ /\ output.ok
          /\ output.v # encInput
          /\ selected.has
          /\ unwrapped.ok
          /\ IsWrapOf(hexToBytes(selected.v), hexToBytes(ctx.hostPrivateKey),
                      unwrapped.v)
          /\ IsSealOf(encInput, unwrapped.v, output.v)

\* Decryption was refused because the integrity check of the content failed.
C7_Witness ==
    /\ Enabled
    /\ dpc = "done"
    /\ unwrapped.ok
    /\ output = DecryptError("DECRYPT_FAILED")

\* The keys map of the configuration has an entry for host.
HasEntry(host) ==
    /\ ctx.manifest.encryption.v.keys.has
    /\ host \in DOMAIN ctx.manifest.encryption.v.keys.v

\* C8: with entries for A and B in encryption.keys, gateway B selects B's
\* entry and decrypts the file with it; with an entry for A only (and no
\* single wrapped key), decrypt on gateway B fails with NO_KEY_FOR_HOST.
C8_Original ==
    (/\ Enabled
     /\ dpc = "done"
     /\ ctx.hostPubkey = HostB
     /\ ctx.hostPrivateKey = bytesToHex(PrivB)
     /\ ~ctx.manifest.encryption.v.wrappedKey.has
     /\ HasEntry(HostA)) =>
       /\ (HasEntry(HostB)
             /\ ctx.manifest.encryption.v.keys.v[HostB] = WrappedB
             /\ encInput = EncryptedFile) =>
            /\ selected = Present(WrappedB)
            /\ output = Ok(Plaintext)
       /\ ~HasEntry(HostB) => output = DecryptError("NO_KEY_FOR_HOST")

\* The part of C8 about the selection: gateway B never selects A's entry,
\* and without an entry or single key for it fails with NO_KEY_FOR_HOST.
C8_SelectionHolds ==
    (/\ Enabled
     /\ dpc = "done"
     /\ ctx.hostPubkey = HostB
     /\ ~ctx.manifest.encryption.v.wrappedKey.has
     /\ HasEntry(HostA)) =>
       /\ selected # Present(WrappedA)
       /\ (HasEntry(HostB) /\ ctx.manifest.encryption.v.keys.v[HostB] = WrappedB)
            => selected = Present(WrappedB)
       /\ ~HasEntry(HostB) => output = DecryptError("NO_KEY_FOR_HOST")

\* The value a falsy string and null stand for alike.
Falsy(opt) == ~opt.has \/ opt.v = <<>>
SameKey(x, y) == (Falsy(x) /\ Falsy(y)) \/ x = y

\* C9, as stated, with an empty string read as no value wherever that helps
\* the statement: the result is keys[host] whenever that entry exists;
\* otherwise the single wrappedKey if hostPubkey equals host or is unset;
\* otherwise null.
C9_Original ==
    (Enabled /\ dpc # "start") =>
       LET enc == ctx.manifest.encryption.v
       IN  SameKey(selected,
                   IF HasEntry(ctx.hostPubkey)
                   THEN Present(enc.keys.v[ctx.hostPubkey])
                   ELSE IF enc.wrappedKey.has
                           /\ (Falsy(enc.hostPubkey) \/ enc.hostPubkey.v = ctx.hostPubkey)
                   THEN enc.wrappedKey
                   ELSE Absent)

\* C9, amended: the result is keys[host] whenever that entry exists and is
\* not the empty string; otherwise the single wrappedKey if it is not empty
\* and hostPubkey equals host, is unset or is empty; otherwise null.  A
\* single wrappedKey bound to a different hostPubkey is never returned in
\* place of an entry or of null.
C9_KeysEntryThenLegacy ==
    (Enabled /\ dpc # "start") =>
       LET enc == ctx.manifest.encryption.v
           host == ctx.hostPubkey
           entry == IF HasEntry(host) THEN enc.keys.v[host] ELSE <<>>
       IN  /\ selected =
                IF entry # <<>> THEN Present(entry)
                ELSE IF ~Falsy(enc.wrappedKey)
                        /\ (Falsy(enc.hostPubkey) \/ enc.hostPubkey.v = host)
                THEN enc.wrappedKey
                ELSE Absent
           /\ (~Falsy(enc.hostPubkey) /\ enc.hostPubkey.v # host /\ selected.has)
                => (entry # <<>> /\ selected.v = entry)

\* Both an entry for the host and a single wrapped key for it exist, and the
\* entry was returned.
C9_Witness ==
    /\ Enabled
    /\ dpc # "start"
    /\ HasEntry(ctx.hostPubkey)
    /\ ctx.manifest.encryption.v.wrappedKey = Present(LegacyB)
    /\ ctx.manifest.encryption.v.hostPubkey = Present(ctx.hostPubkey)
    /\ selected = Present(WrappedB)

\* C10: when manifest.encryption is absent or not enabled, decrypt returns
\* its input, byte for byte, and reads no wrapped key and no private key.
C10_PassThrough ==
    (dpc = "done" /\ ~Enabled) =>
       /\ output = Ok(encInput)
       /\ consulted = {}
       /\ selected = Absent
       /\ unwrapped = Pending

\* An encrypted file of a manifest that holds keys but has encryption
\* disabled was returned as it is.
C10_Witness ==
    /\ dpc = "done"
    /\ ctx.manifest.encryption.has
    /\ ~ctx.manifest.encryption.v.enabled
    /\ ctx.manifest.encryption.v.keys.has
    /\ encInput = EncryptedFile
    /\ output = Ok(EncryptedFile)

(***************************************************************************)
(* resolve.ts: resolveTarget and getManifest                               *)
(***************************************************************************)

\* `value.name` for a value that is not null or undefined: the field of an
\* object that has it, undefined otherwise (strings, numbers and booleans
\* have no such property).
getProp(value, name) ==
    IF HasField(value, name) THEN Field(value, name) ELSE Undefined

\* A value inside a template literal: a string as it is, undefined as the
\* text "undefined".
Interpolated(value) == IF value.t = "string" THEN value.v ELSE <<value.t>>

\* buildBaseUri(appPubkey, buildHash, pattern).
buildBaseUri(appPubkey, buildHash, pattern) ==
    IF pattern = "open"
    THEN <<"immutable">> \o SchemeSep \o <<"open", "/", "apps", "/">> \o appPubkey
            \o <<"/", "builds", "/">> \o Interpolated(buildHash)
    ELSE <<"immutable">> \o SchemeSep \o <<"accounts", "/">> \o appPubkey
            \o <<"/", "builds", "/">> \o Interpolated(buildHash)

\* targetUri(appPubkey, pattern).
targetUri(appPubkey, pattern) ==
    IF pattern = "open"
    THEN <<"mutable">> \o SchemeSep \o <<"open", "/", "apps", "/">> \o appPubkey
            \o <<"/", "target">>
    ELSE <<"mutable">> \o SchemeSep \o <<"accounts", "/">> \o appPubkey
            \o <<"/", "target">>

\* A BuildTarget.
BuildTarget(appPubkey, buildHash, base, version) ==
    [appPubkey |-> appPubkey, buildHash |-> buildHash, baseUri |-> base,
     version |-> version]

\* new ResolveError(message, code).
ResolveError(code) == Throw("ResolveError", code)

\* A result that carries a record instead of bytes.
Returned(value) == [ok |-> TRUE, v |-> value, name |-> "", code |-> ""]

\* The build hash of the request is never looked at.
previewMode_Never(request) == FALSE

\* `if (buildHash)`: the request names a build.
previewMode(request) == request.buildHash.has /\ Len(request.buildHash.v) > 0

\* resolveTarget in preview mode.
previewTarget(request, pattern) ==
    BuildTarget(request.appPubkey, Str(request.buildHash.v),
                buildBaseUri(request.appPubkey, Str(request.buildHash.v), pattern),
                Undefined)

\* resolveTarget after the read of the target pointer returned rec.
currentTarget(request, pattern, rec) ==
    LET pointer == unwrapData(rec)
    IN  IF ~Found(rec) THEN ResolveError("NO_TARGET")
        ELSE IF pointer.t \in {"null", "undefined"} THEN Throw("TypeError", "")
        ELSE Returned(BuildTarget(request.appPubkey,
                                  getProp(pointer, "buildHash"),
                                  buildBaseUri(request.appPubkey,
                                               getProp(pointer, "buildHash"),
                                               pattern),
                                  getProp(pointer, "version")))

\* The URI getManifest reads.
manifestUri(build) == build.baseUri \o <<"/", "manifest", ".", "json">>

\* The record is returned as it was read.
manifestResult_NotUnwrapped(rec) ==
    IF ~Found(rec) THEN ResolveError("NO_MANIFEST") ELSE Returned(rec)

\* getManifest after its read returned rec.
manifestResult(rec) ==
    IF ~Found(rec) THEN ResolveError("NO_MANIFEST") ELSE Returned(unwrapData(rec))

\* The requests: one app, no build hash, an empty one, or one of two builds.
HostRequests ==
    {[appPubkey |-> <<"app1">>, buildHash |-> h] :
        h \in {Absent, Present(<<>>), Present(<<"b1">>), Present(<<"b2">>)}}

\* A target pointer that names build with a version.
TargetPointer(build) ==
    Obj(<< <<"buildHash", Str(build)>>, <<"version", Str(<<"v1">>)>>,
           <<"updatedAt", Num(1)>> >>)

\* What the store may hold at the target pointer: nothing, null, strings,
\* pointers to either build, a pointer without build hash or with an empty
\* one, and enveloped pointers, null and an empty object.
TargetPointerRecords ==
    {NoRecord, Null, Str(<<>>), Str(<<"b1">>),
     TargetPointer(<<"b1">>), TargetPointer(<<"b2">>),
     Obj(<< <<"version", Str(<<"v1">>)>>, <<"updatedAt", Num(1)>> >>),
     TargetPointer(<<>>),
     Envelope(TargetPointer(<<"b1">>)),
     Envelope(Null),
     Envelope(Obj(<<>>))}

\* A manifest, and a manifest that has a property named payload.
ManifestValue ==
    Obj(<< <<"manifestVersion", Str(<<"1">>)>>, <<"buildHash", Str(<<"b1">>)>> >>)
ManifestWithPayload ==
    Obj(<< <<"manifestVersion", Str(<<"1">>)>>, <<"payload", Str(<<"x">>)>> >>)

\* What the store may hold at manifest.json.
ManifestRecords ==
    {NoRecord, Null, Str(<<>>), ManifestValue, Envelope(ManifestValue),
     ManifestWithPayload, Envelope(Envelope(ManifestValue))}

InitTarget ==
    /\ HandlerIdle
    /\ PathIdle
    /\ DecryptIdle
    /\ HeadersIdle
    /\ LegacyIdle
    /\ hostRequest \in HostRequests
    /\ uriPattern \in {"accounts", "open"}
    /\ pointerRec \in TargetPointerRecords
    /\ manifestRec \in ManifestRecords
    /\ hpc = "start"
    /\ buildTarget = Pending
    /\ manifestOut = Pending
    /\ hpReads = <<>>

\* resolveTarget(client, request, pattern) returns or throws.
ResolveTarget ==
    /\ hpc = "start"
    /\ IF previewMode(hostRequest)
       THEN /\ buildTarget' = Returned(previewTarget(hostRequest, uriPattern))
            /\ hpc' = "target"
            /\ UNCHANGED hpReads
       ELSE /\ hpReads' = Append(hpReads, targetUri(hostRequest.appPubkey, uriPattern))
            /\ buildTarget' = currentTarget(hostRequest, uriPattern, pointerRec)
            /\ hpc' = IF currentTarget(hostRequest, uriPattern, pointerRec).ok
                      THEN "target" ELSE "done"
    /\ UNCHANGED <<hostRequest, uriPattern, pointerRec, manifestRec, manifestOut,
                   besidesTarget>>

\* getManifest(client, target) returns or throws.
GetManifest ==
    /\ hpc = "target"
    /\ hpReads' = Append(hpReads, manifestUri(buildTarget.v))
    /\ manifestOut' = manifestResult(manifestRec)
    /\ hpc' = "done"
    /\ UNCHANGED <<hostRequest, uriPattern, pointerRec, manifestRec, buildTarget,
                   besidesTarget>>

NextTarget ==
    \/ ResolveTarget
    \/ GetManifest

SpecTarget == InitTarget /\ [][NextTarget]_vars

(***************************************************************************)
(* Properties of resolveTarget and getManifest                             *)
(***************************************************************************)

\* immutable://{accounts | open/apps}/{app}/builds/{hash}, written out.
BuildUriOf(app, hash, pattern) ==
    <<"immutable", ":", "/", "/">>
       \o (IF pattern = "open" THEN <<"open", "/", "apps", "/">> ELSE <<"accounts", "/">>)
       \o app \o <<"/", "builds", "/">> \o hash

\* C11: resolveTarget called with a (non-empty) build hash returns the
\* BuildTarget of that build and reads nothing, whatever the target pointer
\* holds.
C11_PreviewReadsNothing ==
    (hpc \in {"target", "done"} /\ hostRequest.buildHash.has
       /\ hostRequest.buildHash.v # <<>>) =>
      /\ buildTarget.ok
      /\ buildTarget.v.appPubkey = hostRequest.appPubkey
      /\ buildTarget.v.buildHash = Str(hostRequest.buildHash.v)
      /\ buildTarget.v.baseUri =
           BuildUriOf(hostRequest.appPubkey, hostRequest.buildHash.v, uriPattern)
      /\ hpc = "target" => hpReads = <<>>
      /\ \A i \in 1..Len(hpReads) :
           hpReads[i] # targetUri(hostRequest.appPubkey, uriPattern)

\* A preview of build b1 was resolved while the pointer names build b2.
C11_Witness ==
    /\ hpc = "target"
    /\ hostRequest.buildHash = Present(<<"b1">>)
    /\ pointerRec = TargetPointer(<<"b2">>)
    /\ buildTarget.ok
    /\ hpReads = <<>>

\* The unwrapped target pointer holds a build identifier.
HasBuildIdentifier(rec) ==
    /\ rec.t # "none"
    /\ LET p == IF HasField(rec, "payload") THEN Field(rec, "payload") ELSE rec
       IN  /\ HasField(p, "buildHash")
           /\ Field(p, "buildHash").t = "string"
           /\ Field(p, "buildHash").v # <<>>

\* C12: without an explicit build hash resolveTarget returns a BuildTarget
\* only if the pointer record exists and holds a build identifier; otherwise
\* it fails with NO_TARGET, and a returned buildHash is never empty or
\* undefined.
C12_Original ==
    (hpc \in {"target", "done"} /\ ~hostRequest.buildHash.has) =>
      /\ buildTarget.ok =>
           /\ HasBuildIdentifier(pointerRec)
           /\ buildTarget.v.buildHash.t = "string"
           /\ buildTarget.v.buildHash.v # <<>>
      /\ ~HasBuildIdentifier(pointerRec) => buildTarget = ResolveError("NO_TARGET")

\* The part of C12 that holds: an absent pointer record is NO_TARGET, and a
\* pointer with a build identifier gives the BuildTarget of that build.
C12_AbsentIsNoTarget ==
    (hpc \in {"target", "done"} /\ ~hostRequest.buildHash.has) =>
      /\ pointerRec = NoRecord => buildTarget = ResolveError("NO_TARGET")
      /\ HasBuildIdentifier(pointerRec) =>
           /\ buildTarget.ok
           /\ buildTarget.v.buildHash.t = "string"
           /\ buildTarget.v.buildHash.v # <<>>

NormalOf(path, m) ==
    LET stripped == IF Len(path) > 0 /\ path[1] = "/" THEN Tail(path) ELSE path
    IN  IF stripped # <<>> THEN stripped
        ELSE IF m.routing.has /\ m.routing.v.entrypoint.has
        THEN m.routing.v.entrypoint.v ELSE IndexHtml
IndexOf(path, m) ==
    LET np == NormalOf(path, m)
    IN  IF np[Len(np)] = "/" THEN np \o IndexHtml ELSE np \o <<"/">> \o IndexHtml
EntryOf(m) ==
    IF m.routing.has /\ m.routing.v.entrypoint.has
    THEN m.routing.v.entrypoint.v ELSE IndexHtml

\* C14: with routing.spa true, no exact match, no directory-index match and
\* the entrypoint missing from manifest.files, resolvePath throws NOT_FOUND;
\* the SPA entrypoint is never returned when the manifest does not list it.
C14_Original ==
    resolved # Pending =>
      /\ (/\ manifest.routing.has
          /\ manifest.routing.v.spa
          /\ ~Listed(manifest, NormalOf(reqPath, manifest))
          /\ ~Listed(manifest, IndexOf(reqPath, manifest))
          /\ ~Listed(manifest, EntryOf(manifest))) => resolved = NotFound
      /\ (resolved.ok /\ resolved.fallback) => Listed(manifest, resolved.filePath)

\* The same for requests whose normalised path names no inherited property:
\* an entrypoint the manifest does not list is never served.
C14_HoldsOffInheritedNames ==
    (resolved # Pending /\ reqPath # <<"/", "constructor">>) =>
      /\ (/\ manifest.routing.has
          /\ manifest.routing.v.spa
          /\ ~Listed(manifest, NormalOf(reqPath, manifest))
          /\ ~Listed(manifest, IndexOf(reqPath, manifest))
          /\ ~Listed(manifest, EntryOf(manifest))) => resolved = NotFound
      /\ (resolved.ok /\ resolved.fallback) => Listed(manifest, resolved.filePath)

\* C15, as stated: the fallback flag is true whenever the returned file is
\* not the file of the normalised request path (SPA fallback and directory
\* index), and not true for an exact match.
C15_Original ==
    (resolved # Pending /\ resolved.ok) =>
       (resolved.fallback <=> resolved.filePath # NormalOf(reqPath, manifest))

\* C15, amended: the fallback flag is true exactly when the SPA entrypoint
\* was substituted (no exact match, no directory index, routing.spa true);
\* it is not set for an exact match nor for a directory-index substitution.
C15_FallbackOnlyForSpa ==
    (resolved # Pending /\ resolved.ok) =>
      /\ resolved.fallback =>
           /\ manifest.routing.has /\ manifest.routing.v.spa
           /\ resolved.filePath = EntryOf(manifest)
           /\ ~Listed(manifest, NormalOf(reqPath, manifest))
           /\ ~Listed(manifest, IndexOf(reqPath, manifest))
      /\ ~resolved.fallback =>
           resolved.filePath \in {NormalOf(reqPath, manifest),
                                  IndexOf(reqPath, manifest)}
      /\ (/\ ~Listed(manifest, NormalOf(reqPath, manifest))
          /\ Listed(manifest, IndexOf(reqPath, manifest))
          /\ reqPath # <<"/", "constructor">>) =>
           /\ resolved.filePath = IndexOf(reqPath, manifest)
           /\ ~resolved.fallback

\* /docs was answered with docs/index.html, not flagged as a fallback.
C15_Witness ==
    /\ resolved # Pending
    /\ resolved.ok
    /\ reqPath = <<"/", "docs">>
    /\ resolved.filePath = <<"docs", "/", "index", ".", "html">>
    /\ ~resolved.fallback
    /\ manifest.routing.has
    /\ manifest.routing.v.spa


(***************************************************************************)
(* Properties of custom domains and of the gateway                         *)
(***************************************************************************)

\* The running request was dispatched to handleCustomDomain.
IsCustom == pc # "idle" /\ createHandler(req, primaryDomain) = "custom"

\* The running request was dispatched to handleServe.
IsServe == pc # "idle" /\ createHandler(req, primaryDomain) = "serve"

\* The registry URI of a Host header: mutable://open/domains/ followed by the
\* header up to its first ":", lower-cased.
RegistryUriOf(h) ==
    <<"mutable", ":", "/", "/", "open", "/", "domains", "/">>
        \o ToLowerCase(BeforeFirst(h, ":"))

\* C16: a custom-domain request reads nothing before the registry; its first
\* read is the registry record of the Host header without port and in lower
\* case, which it reads once only; when the registry holds no record for the
\* domain the response is 404 and nothing else is read.
C16_RegistryReadFirst ==
    IsCustom =>
        /\ pc = "domain" => reads = <<>>
        /\ pc # "domain" =>
             /\ Len(reads) >= 1
             /\ reads[1] = RegistryUriOf(req.host)
             /\ \A i \in 2..Len(reads) : reads[i] # RegistryUriOf(req.host)
             /\ store[RegistryUriOf(req.host)] = NoRecord =>
                  /\ pc = "done"
                  /\ response.status = 404
                  /\ Len(reads) = 1

\* A custom-domain request on a Host header with a port and capitals has been
\* answered with content read after the registry.
C16_Witness ==
    /\ IsCustom
    /\ pc = "done"
    /\ Includes(req.host, ":")
    /\ ToLowerCase(req.host) # req.host
    /\ response.status = 200
    /\ Len(reads) >= 2

\* A custom-domain request whose domain has no registry record has been
\* answered.
C16_WitnessAbsent ==
    /\ IsCustom
    /\ pc = "done"
    /\ store[RegistryUriOf(req.host)] = NoRecord

\* The last invocation of a completed resolveByProtocol call read its URI
\* and the store holds no record there.
EndedOnMissing(a) ==
    /\ Completed(a)
    /\ Len(a.reads) = Len(a.hops)
    /\ store[Last(a.hops)] = NoRecord

\* A resolveByProtocol call was invoked at a depth beyond MAX_LINK_DEPTH.
WentBeyondDepth(a) == Len(a.hops) - 1 > MAX_LINK_DEPTH

\* C18: a resolveByProtocol call that ends on a URI without a record answers
\* 404; one that is invoked beyond the link depth answers 508; and
\* /api/v1/serve on a gateway without a target is answered 503 with no read.
C18_StatusOfOutcome ==
    /\ \A i \in 1..Len(attempts) :
         /\ EndedOnMissing(attempts[i]) => attempts[i].resp.status = 404
         /\ Completed(attempts[i]) /\ WentBeyondDepth(attempts[i]) =>
              attempts[i].resp.status = 508
    /\ pc = "done" /\ Len(attempts) > 0 =>
         response.status = attempts[Len(attempts)].resp.status
    /\ IsServe /\ Len(target) = 0 =>
         /\ pc = "done"
         /\ response.status = 503
         /\ reads = <<>>

\* A request has been answered 508 by its index.html attempt after its exact
\* attempt ended 404 on a blob without a record.
C18_Witness ==
    /\ pc = "done"
    /\ Len(attempts) = 2
    /\ EndedOnMissing(attempts[1])
    /\ getProtocol(Last(attempts[1].hops)) = "blob"
    /\ WentBeyondDepth(attempts[2])
    /\ response.status = 508

\* /api/v1/serve has been answered on a gateway without a target.
C18_WitnessNoTarget == IsServe /\ Len(target) = 0 /\ pc = "done"

\* An answered request was a custom-domain request or an /api/v1/serve one.
WasCustom(a) == createHandler(a.req, primaryDomain) = "custom"
WasServe(a) == createHandler(a.req, primaryDomain) = "serve"

\* Custom-domain request a and serve request b ask for the same content path,
\* and the registry entry of a's domain yields the configured target.
SamePathAndBase(a, b) ==
    /\ WasCustom(a)
    /\ WasServe(b)
    /\ SubSeq(a.req.path, 2, Len(a.req.path))
         = SubSeq(b.req.path, Len(ApiPath(<<"serve", "/">>)) + 1, Len(b.req.path))
    /\ LET entry == store[RegistryUriOf(a.req.host)]
           yielded == IF HasField(entry, "payload")
                      THEN Field(entry, "payload")
                      ELSE entry
       IN  Truthy(entry) /\ yielded = Str(target)

\* C17 as stated: whatever the base URI, the custom-domain request and the
\* serve request are answered alike.
C17_Original ==
    \A a, b \in served : SamePathAndBase(a, b) => a.response = b.response

\* C17: for a configured target that is not empty and that resolveTarget uses
\* as it is (it ends with "/" or is not a mutable:// URI), a custom-domain
\* request whose registry entry yields that target and the serve request for
\* the same path get the same status, body, Content-Type and Cache-Control.
C17_SameAsServeForDirectBase ==
    \A a, b \in served :
        /\ SamePathAndBase(a, b)
        /\ Len(target) > 0
        /\ ~(Last(target) # "/" /\ target[1] = "mutable")
        => a.response = b.response

\* A custom-domain request and the serve request for the same path have both
\* been answered with content, from the base both were given.
C17_Witness ==
    \E a, b \in served :
        /\ SamePathAndBase(a, b)
        /\ Len(target) > 0
        /\ ~(Last(target) # "/" /\ target[1] = "mutable")
        /\ a.response.status = 200
        /\ b.response.status = 200

\* C19: no step of the gateway, whatever the requests and however they are
\* interleaved, changes the backing store.
C19_StoreNeverChanges == [][store' = store]_vars

\* Three requests have been answered, a serve request and a custom-domain
\* request among them, both with content read from the store.
C19_Witness ==
    /\ handled = MaxRequests
    /\ \E a, b \in served :
         /\ WasServe(a)
         /\ WasCustom(b)
         /\ a.response.status = 200
         /\ b.response.status = 200

\* resolveTarget and getManifest leave the records they read as they are.
HostProtocolStoreNeverChanges ==
    [][pointerRec' = pointerRec /\ manifestRec' = manifestRec]_vars

\* C20: two requests that are the same (and saw the same backend health and
\* clock) are answered the same, whatever was answered between them and
\* whatever ran between their reads.
C20_SameRequestSameResponse ==
    /\ \A a, b \in served :
         a.req = b.req /\ a.env = b.env => a.response = b.response
    /\ pc = "done" =>
         \A a \in served :
             a.req = req /\ a.env = env => a.response = response

\* A request that reads the store has been answered while another request
\* is parked at its read, and the same request was answered before.
C20_Witness ==
    /\ pc = "done"
    /\ Len(reads) >= 2
    /\ parked.pc \in AwaitPoints
    /\ Len(parked.reads) >= 1
    /\ parked.req # req
    /\ \E a \in served : a.req = req

(***************************************************************************)
(* Further properties of the handler                                       *)
(***************************************************************************)

\* The invocations of a resolveByProtocol call that have been entered and
\* have not returned what they read.
OpenInvocations(a) == IF Completed(a) THEN 0 ELSE Len(a.hops) - Len(a.reads)

RECURSIVE SumOpen(_)
SumOpen(as) == IF as = <<>> THEN 0 ELSE OpenInvocations(Head(as)) + SumOpen(Tail(as))

RECURSIVE ReadsOf(_)
ReadsOf(as) == IF as = <<>> THEN <<>> ELSE Head(as).reads \o ReadsOf(Tail(as))

\* The reads a request has in flight: the pointer, registry or domain-check
\* read it awaits, and the invocations of resolveByProtocol that are open.
ReadsInFlight ==
    (IF pc \in {"target", "domain", "check"} THEN 1 ELSE 0) + SumOpen(attempts)

\* C21: a request never has two reads in flight: at most one invocation of
\* resolveByProtocol is open at any time, none while the pointer or registry
\* read is awaited, every invocation of a chain is entered after the read of
\* the one before it returned, and the reads of the request are those of its
\* attempts one after the other.
C21_OneReadInFlight ==
    /\ ReadsInFlight <= 1
    /\ \A i \in 1..Len(attempts) :
         /\ Len(attempts[i].hops) - Len(attempts[i].reads) \in {0, 1}
         /\ i < Len(attempts) => Completed(attempts[i])
    /\ \E first \in {0, 1} :
         /\ Len(reads) = first + Len(ReadsOf(attempts))
         /\ SubSeq(reads, first + 1, Len(reads)) = ReadsOf(attempts)

\* The index.html attempt awaits its read after the exact attempt followed a
\* link and ended on a missing record.
C21_Witness ==
    /\ pc = "resolve"
    /\ Len(attempts) = 2
    /\ Len(attempts[1].reads) >= 2
    /\ ~Completed(attempts[2])
    /\ ReadsInFlight = 1


(***************************************************************************)
(* Further properties of decryption                                        *)
(***************************************************************************)

\* The private keys a wrapped key may have been wrapped to.
PrivateKeys == {PrivA, PrivB}

\* unwrapContentKey was called with a key wrapped to the public key of
\* privateKey.
UnwrappedWrapTo(privateKey) ==
    /\ dpc \in {"content", "done"}
    /\ unwrapped # Pending
    /\ selected.has
    /\ IsWrapOf(hexToBytes(selected.v), privateKey, ContentKey)

\* C22: unwrapContentKey of a content key wrapped to a host public key
\* returns exactly the original key bytes when it is called with the
\* matching private key, and raises, returning no key, when it is called
\* with any other private key.
C22_Original ==
    \A privateKey \in PrivateKeys :
       UnwrappedWrapTo(privateKey) =>
          IF hexToBytes(ctx.hostPrivateKey) = privateKey
          THEN unwrapped = Ok(ContentKey)
          ELSE ~unwrapped.ok

\* The half of C22 about other private keys, and the round trip where
\* importKey takes a raw private scalar.
C22_HoldsWhereRawImported ==
    \A privateKey \in PrivateKeys :
       UnwrappedWrapTo(privateKey) =>
          IF hexToBytes(ctx.hostPrivateKey) # privateKey
          THEN ~unwrapped.ok
          ELSE rawImport = "accepted" => unwrapped = Ok(ContentKey)


\* The payloads that differ from the published file in exactly one bit.
SingleBitFlips ==
    {FlipBit(EncryptedFile, i, b) : i \in 1..Len(EncryptedFile), b \in 0..7}

\* C23: decrypt applied to a payload that differs in a single bit from the
\* validly encrypted file, on a gateway that holds the private key of the
\* wrapped key selected for it, fails with DECRYPT_FAILED and returns no
\* plaintext.
C23_Original ==
    (/\ Enabled
     /\ dpc = "done"
     /\ encInput \in SingleBitFlips
     /\ selected.has
     /\ IsWrapOf(hexToBytes(selected.v), hexToBytes(ctx.hostPrivateKey),
                 ContentKey)) =>
       output = DecryptError("DECRYPT_FAILED")

\* What holds of C23: decrypt of such a payload never returns (no plaintext,
\* whole or partial), and decryptContent, whenever it is reached, fails with
\* DECRYPT_FAILED.
C23_NoPlaintextOfFlippedPayload ==
    (Enabled /\ dpc = "done" /\ encInput \in SingleBitFlips) =>
       /\ ~output.ok
       /\ output.v = <<>>
       /\ (unwrapped = Ok(ContentKey)) => output = DecryptError("DECRYPT_FAILED")

\* decryptContent refused a payload with one bit flipped in its nonce.
C23_ReachedDecryptContent ==
    /\ Enabled
    /\ dpc = "done"
    /\ encInput = FlipBit(EncryptedFile, 1, 0)
    /\ unwrapped = Ok(ContentKey)
    /\ output = DecryptError("DECRYPT_FAILED")


(***************************************************************************)
(* headers.ts: cache headers                                               *)
(*                                                                         *)
(* A set of headers is a function from header names to values; {} is the   *)
(* empty function.                                                         *)
(***************************************************************************)

\* { "Cache-Control": directive }.
CacheControl(directive) == [name \in {"Cache-Control"} |-> directive]

\* The extensions of the two hashed-asset patterns: (js|css|woff2?|ttf|eot)
\* and (png|jpg|jpeg|gif|svg|webp|avif|ico).
HashedCodeExtensions == {"js", "css", "woff", "woff2", "ttf", "eot"}
HashedImageExtensions ==
    {"png", "jpg", "jpeg", "gif", "svg", "webp", "avif", "ico"}

\* /\.[a-f0-9]{6,}\.(extensions)$/i
TestHashed(filePath, extensions) ==
    LET n == Len(filePath)
    IN  /\ n >= 4
        /\ filePath[n-3] = "."
        /\ IsHexFragment(filePath[n-2])
        /\ filePath[n-1] = "."
        /\ LowerTok(filePath[n]) \in extensions

\* /\.(extensions)$/i
TestExtension(filePath, extensions) ==
    LET n == Len(filePath)
    IN  /\ n >= 2
        /\ filePath[n-1] = "."
        /\ LowerTok(filePath[n]) \in extensions

\* rule.pattern.test(filePath) for the patterns of the default rules.
Test(pattern, filePath) ==
    CASE pattern.kind = "hashed" -> TestHashed(filePath, pattern.extensions)
      [] pattern.kind = "extension" -> TestExtension(filePath, pattern.extensions)
      [] pattern.kind = "any" -> TRUE

\* DEFAULT_CACHE_RULES (the header utilities that take the manifest).
DEFAULT_CACHE_RULES ==
    <<[pattern |-> [kind |-> "hashed", extensions |-> HashedCodeExtensions],
       headers |-> CacheControl("public, max-age=31536000, immutable")],
      [pattern |-> [kind |-> "hashed", extensions |-> HashedImageExtensions],
       headers |-> CacheControl("public, max-age=31536000, immutable")],
      [pattern |-> [kind |-> "extension", extensions |-> {"html", "htm"}],
       headers |-> CacheControl("public, max-age=0, must-revalidate")],
      [pattern |-> [kind |-> "extension", extensions |-> {"json"}],
       headers |-> CacheControl("public, max-age=60")],
      [pattern |-> [kind |-> "any", extensions |-> {}],
       headers |-> CacheControl("public, max-age=3600")]>>

\* matchGlob: "*" is [^/]*, "**" is .*, every other token is itself; the
\* whole path must match.
RECURSIVE matchGlob(_, _)
matchGlob(path, pattern) ==
    IF pattern = <<>> THEN path = <<>>
    ELSE IF Head(pattern) \in {"*", "**"}
    THEN \E k \in 0..Len(path) :
            /\ Head(pattern) = "*" => \A i \in 1..k : path[i] # "/"
            /\ matchGlob(SubSeq(path, k + 1, Len(path)), Tail(pattern))
    ELSE /\ path # <<>>
         /\ Head(path) = Head(pattern)
         /\ matchGlob(Tail(path), Tail(pattern))

\* The first entry of headersConfig.patterns whose glob matches, 0 when
\* there is none.
FirstMatch(filePath, patterns) ==
    IF \E i \in 1..Len(patterns) : matchGlob(filePath, patterns[i][1])
    THEN CHOOSE i \in 1..Len(patterns) :
            /\ matchGlob(filePath, patterns[i][1])
            /\ \A j \in 1..(i-1) : ~matchGlob(filePath, patterns[j][1])
    ELSE 0

\* The first default rule whose pattern matches, 0 when there is none.
FirstRule(filePath, rules) ==
    IF \E i \in 1..Len(rules) : Test(rules[i].pattern, filePath)
    THEN CHOOSE i \in 1..Len(rules) :
            /\ Test(rules[i].pattern, filePath)
            /\ \A j \in 1..(i-1) : ~Test(rules[j].pattern, filePath)
    ELSE 0

\* { ...a, ...b }: the headers of b, and those of a that b does not set; the
\* spread of undefined adds nothing.
Spread(a, b) == IF a.has THEN b @@ a.v ELSE b

\* The utilities without the rule for JSON files.
getCacheHeaders_NoJsonRule(filePath) ==
    IF \/ TestHashed(filePath, HashedCodeExtensions)
       \/ TestHashed(filePath, HashedImageExtensions)
    THEN CacheControl("public, max-age=31536000, immutable")
    ELSE IF TestExtension(filePath, {"html", "htm"})
    THEN CacheControl("public, max-age=0, must-revalidate")
    ELSE CacheControl("public, max-age=3600")

\* getCacheHeaders(filePath) of the utilities that take no manifest.
getCacheHeaders(filePath) ==
    IF TestHashed(filePath, HashedCodeExtensions \cup HashedImageExtensions)
    THEN CacheControl("public, max-age=31536000, immutable")
    ELSE IF TestExtension(filePath, {"html", "htm"})
    THEN CacheControl("public, max-age=0, must-revalidate")
    ELSE IF TestExtension(filePath, {"json"})
    THEN CacheControl("public, max-age=60")
    ELSE CacheControl("public, max-age=3600")

\* getCacheHeaders(filePath, headersConfig) of the utilities that take the
\* manifest: its patterns first, then its default, then the default rules.
getCacheHeadersWithConfig(filePath, headersConfig) ==
    LET patterns == headersConfig.v.patterns
        matched == FirstMatch(filePath, patterns.v)
        rule == FirstRule(filePath, DEFAULT_CACHE_RULES)
    IN  IF headersConfig.has /\ patterns.has /\ matched # 0
        THEN Spread(headersConfig.v.default, patterns.v[matched][2])
        ELSE IF headersConfig.has /\ headersConfig.v.default.has
        THEN headersConfig.v.default.v
        ELSE IF rule # 0 THEN DEFAULT_CACHE_RULES[rule].headers
        ELSE <<>>

(***************************************************************************)
(* The universe of the cache-header specification                          *)
(***************************************************************************)

\* A file path: directory, stem, a fragment before the extension, extension.
FilePath(dir, stem, fragment, ext) ==
    dir \o stem
        \o (IF fragment = "" THEN <<>> ELSE <<".", fragment>>)
        \o (IF ext = "" THEN <<>> ELSE <<".", ext>>)

Directories == {<<>>, <<"assets", "/">>}
Stems == {<<>>, <<"main">>, <<"abc123">>}
Fragments == {"", "abc123", "ABC123", "deadbeef", "abc12", "min"}
Extensions ==
    HashedCodeExtensions \cup HashedImageExtensions
       \cup {"", "html", "htm", "HTML", "JS", "json", "txt", "map"}

FilePaths ==
    {FilePath(d, s, f, e) :
        d \in Directories, s \in Stems, f \in Fragments, e \in Extensions}

\* manifest.headers: absent, empty, with a default, with patterns, with both.
NoStoreHeaders == CacheControl("no-store")
PatternHeaders == [name \in {"X-Frame-Options"} |-> "DENY"]
GlobPatterns ==
    <<<< <<"assets", "/", "**">>, PatternHeaders >>,
      << <<"*", ".", "html">>, CacheControl("no-cache") >> >>
HeadersConfigs ==
    {Absent,
     Present([default |-> Absent, patterns |-> Absent]),
     Present([default |-> Present(NoStoreHeaders), patterns |-> Absent]),
     Present([default |-> Absent, patterns |-> Present(GlobPatterns)]),
     Present([default |-> Present(NoStoreHeaders),
              patterns |-> Present(GlobPatterns)])}

InitHeaders ==
    /\ HandlerIdle
    /\ PathIdle
    /\ DecryptIdle
    /\ TargetIdle
    /\ LegacyIdle
    /\ hdrPath \in FilePaths
    /\ hdrConfig \in HeadersConfigs
    /\ hdrOut = Pending
    /\ hdrPc = "start"

\* Both functions are applied to the path.
GetCacheHeaders ==
    /\ hdrPc = "start"
    /\ hdrOut' = [ok |-> TRUE,
                  simple |-> getCacheHeaders(hdrPath),
                  full |-> getCacheHeadersWithConfig(hdrPath, hdrConfig)]
    /\ hdrPc' = "done"
    /\ UNCHANGED <<hdrPath, hdrConfig, besidesHeaders>>

NextHeaders == GetCacheHeaders

SpecHeaders == InitHeaders /\ [][NextHeaders]_vars


(***************************************************************************)
(* Properties of the cache headers                                         *)
(***************************************************************************)

\* The manifest overrides nothing: the default rules decide.
DefaultRulesDecide ==
    \/ ~hdrConfig.has
    \/ ~hdrConfig.v.default.has /\ ~hdrConfig.v.patterns.has

\* A path of the universe is content-hashed when a hex fragment of at least
\* six characters stands between two dots right before a static-asset
\* extension, in either case of letters; it is an HTML file when its
\* extension is html or htm.
ContentHashed(fragment, ext) ==
    /\ fragment \in {"abc123", "ABC123", "deadbeef"}
    /\ ext \in HashedCodeExtensions \cup HashedImageExtensions \cup {"JS"}
HtmlFile(ext) == ext \in {"html", "htm", "HTML"}

\* The directive every path that is neither content-hashed nor HTML is said
\* to get: the one of a file without extension.
ModerateDefault == getCacheHeaders(<<"main">>)

\* hdrPath is FilePath(d, s, f, e) and both functions returned headers.
ReturnedFor(d, s, f, e) ==
    /\ hdrPc = "done"
    /\ hdrPath = FilePath(d, s, f, e)

C24_WitnessHashed ==
    /\ ReturnedFor(<<>>, <<"main">>, "deadbeef", "woff2")
    /\ DefaultRulesDecide
    /\ hdrOut.full = CacheControl("public, max-age=31536000, immutable")


(***************************************************************************)
(* Properties of the base URI, the headers and the records of a request    *)
(***************************************************************************)

\* The reads of the request that are not reads of a resolveByProtocol call:
\* the pointer read of resolveTarget for a serve request.
PointerReads == Len(reads) - Len(ReadsOf(attempts))

\* resolveTarget of the serve request has returned.
TargetResolved == IsServe /\ Len(target) > 0 /\ pc # "target"

\* What resolveTarget returned: handleContent's base, and the empty string
\* when handleServe answered 503 for want of a base.
ReturnedBase ==
    IF pc = "done" /\ response.status = 503 /\ attempts = <<>>
    THEN <<>>
    ELSE baseUri

\* C25: for /api/v1/serve a configured target ending with "/" is the base
\* and no pointer is read, also for mutable://; a mutable:// target not
\* ending with "/" is read exactly once and, when its unwrapped value is a
\* string, that string is the base.
C25_Original ==
    TargetResolved =>
       /\ EndsWith(target, "/") => (PointerReads = 0 /\ ReturnedBase = target)
       /\ (~EndsWith(target, "/") /\ StartsWith(target, <<"mutable">> \o SchemeSep)) =>
            /\ PointerReads = 1
            /\ reads[1] = target
            /\ (store[target] # NoRecord /\ unwrapData(store[target]).t = "string")
                 => ReturnedBase = unwrapData(store[target]).v

\* C25, amended: the string of the pointer is the base when the pointer
\* record holds a value that is not falsy; a pointer record that is absent,
\* holds a falsy value (the empty string as it is) or unwraps to no string
\* leaves the configured target itself as the base.
C25_BaseOfServe ==
    TargetResolved =>
       /\ EndsWith(target, "/") => (PointerReads = 0 /\ ReturnedBase = target)
       /\ (~EndsWith(target, "/") /\ StartsWith(target, <<"mutable">> \o SchemeSep)) =>
            /\ PointerReads = 1
            /\ reads[1] = target
            /\ ReturnedBase =
                 IF /\ store[target] # NoRecord
                    /\ Truthy(store[target])
                    /\ unwrapData(store[target]).t = "string"
                 THEN unwrapData(store[target]).v
                 ELSE target

\* The pointer held the URI of another pointer: it was the base as it is,
\* content was served from below it, and the pointer read was the only one
\* of its kind.
C25_Witness ==
    /\ TargetResolved
    /\ target = PointerTarget
    /\ store[target] = Str(MutableUri)
    /\ baseUri = MutableUri
    /\ PointerReads = 1
    /\ pc = "done"
    /\ response.status = 200

\* A mutable:// target ending with "/" was the base and no pointer was read.
C25_WitnessDirect ==
    /\ TargetResolved
    /\ target = Uri("mutable", <<"s", "/">>)
    /\ baseUri = target
    /\ reads # <<>>
    /\ PointerReads = 0
    /\ pc = "done"


\* The directive of a file name, for the names of the universe: the
\* content-hashed ones are app.abc123.js and c.abc123.css.
DirectiveOfName(name) ==
    IF name \in {<<"app", ".", "abc123", ".", "js">>,
                 <<"c", ".", "abc123", ".", "css">>}
    THEN "public, max-age=31536000, immutable"
    ELSE "public, max-age=3600"

\* The request was answered 200 by handleContent.
ContentServed ==
    /\ IsServe \/ IsCustom
    /\ pc = "done"
    /\ attempts # <<>>
    /\ response.status = 200

C26_WitnessFinalUri ==
    /\ ContentServed
    /\ contentPath = <<>>
    /\ Len(attempts) = 1
    /\ attempts[1].hops[Len(attempts[1].hops)] = ImmutableUri
    /\ response.cache = "public, max-age=31536000, immutable"


\* What the envelopes of the universe hold.
Payloads ==
    {Str(Uri("link", <<"s", "/", LinkWords[1]>>)), Str(<<"hello">>), Str(<<>>),
     PlainObject, Envelope(Str(BlobUri))}

\* The body serveContent gives a value: strings and bytes as they are, every
\* other value as its JSON text.
BodyOf(v) == IF v.t \in {"string", "bytes"} THEN v ELSE [t |-> "json", v |-> <<v>>]

\* C27: exactly one envelope level is removed from every record read.  For
\* a stored value {auth, payload: v} the resolver uses v: under link:// it
\* is the link target (the next URI resolved, or an invalid link value when
\* it is no string), under the other schemes it is the response content;
\* an envelope-shaped v is not unwrapped a second time.
C27_OneEnvelopeLevel ==
    \A k \in 1..Len(attempts) :
       LET a == attempts[k]
       IN  \A i \in 1..Len(a.reads) :
              \A v \in Payloads :
                 store[a.reads[i]] = Envelope(v) =>
                    IF getProtocol(a.reads[i]) = "link"
                    THEN IF v.t = "string"
                         THEN Len(a.hops) > i /\ a.hops[i + 1] = v.v
                         ELSE /\ Len(a.hops) = i
                              /\ a.resp.status = 500
                    ELSE /\ Len(a.hops) = i
                         /\ a.resp.status = 200
                         /\ a.resp.body = BodyOf(v)

\* A link record held an envelope within an envelope: the inner envelope
\* was taken for the link value, which is no string.
C27_Witness ==
    /\ pc = "done"
    /\ Len(attempts) = 1
    /\ Len(attempts[1].reads) = 2
    /\ getProtocol(attempts[1].reads[2]) = "link"
    /\ store[attempts[1].reads[2]] = Envelope(Envelope(Str(BlobUri)))
    /\ response.status = 500

\* A link led to a blob:// record that held an envelope within an envelope:
\* the inner envelope was served as its JSON text.
C27_WitnessContent ==
    /\ pc = "done"
    /\ Len(attempts) = 1
    /\ Len(attempts[1].reads) = 2
    /\ attempts[1].reads[2] = BlobUri
    /\ store[BlobUri] = Envelope(Envelope(Str(BlobUri)))
    /\ response.status = 200
    /\ response.body = [t |-> "json", v |-> <<Envelope(Str(BlobUri))>>]


\* The record of the last read of attempt a.
LastRecord(a) == store[a.reads[Len(a.reads)]]

\* C28: a resolution hop reports not-found only when the backing store holds
\* no record at the URI; a record that exists is never answered with 404,
\* whatever its payload is.
C28_Original ==
    \A k \in 1..Len(attempts) :
       (Completed(attempts[k]) /\ attempts[k].resp.status = 404) =>
          /\ attempts[k].reads # <<>>
          /\ LastRecord(attempts[k]) = NoRecord

\* What holds of C28: a hop reports not-found exactly when its read gives no
\* record or a record whose stored value is falsy.
C28_NotFoundIffNoneOrFalsy ==
    \A k \in 1..Len(attempts) :
       (Completed(attempts[k]) /\ attempts[k].reads # <<>>) =>
          (attempts[k].resp.status = 404 <=> ~Truthy(LastRecord(attempts[k])))


\* The request was sent to the custom-domain registry lookup.
RoutedToRegistry ==
    \/ pc = "domain"
    \/ reads # <<>> /\ reads[1] = RegistryUriOf(req.host)

\* The host of the request is localhost or a host under fire.cat.
DefaultPrimaryHost ==
    \/ domainOf(req.host) = <<"localhost">>
    \/ /\ Len(domainOf(req.host)) > 3
       /\ SubSeq(domainOf(req.host), Len(domainOf(req.host)) - 3,
                 Len(domainOf(req.host))) = <<".", "fire", ".", "cat">>

\* C29: when primaryDomain is not configured, a request whose host is
\* localhost or a host under fire.cat is a primary-domain request: it is
\* routed to the API endpoints and not to the custom-domain registry lookup.
C29_Original ==
    (pc # "idle" /\ Len(primaryDomain) = 0 /\ DefaultPrimaryHost) =>
       /\ ~RoutedToRegistry
       /\ (pc = "done" /\ req.path = ApiPath(<<"pubkey">>)) => response = handlePubkey

\* What holds of C29: without a primary domain localhost is primary, and
\* every other host, those under fire.cat included, is looked up in the
\* registry.
C29_OnlyLocalhostIsPrimary ==
    (pc # "idle" /\ Len(primaryDomain) = 0) =>
       IF domainOf(req.host) = <<"localhost">>
       THEN ~RoutedToRegistry
       ELSE pc = "domain" \/ (reads # <<>> /\ reads[1] = RegistryUriOf(req.host))


(***************************************************************************)
(* Long chains of links                                                    *)
(***************************************************************************)

\* One request for the first link of a chain of 1..MaxChain links over the
\* store that holds the chain; the chain ends at a record with content or,
\* under blob://, at no record.  The target is the base of the chain or a
\* pointer to it.
InitChain ==
    /\ \E k \in 1..MaxChain, end \in ChainEnds,
          content \in ChainContents \cup {NoRecord} :
         /\ content = NoRecord => getProtocol(end) = "blob"
         /\ \/ /\ target = ChainTarget
               /\ store = ChainStore(k, end, content)
            \/ /\ target = ChainPointer
               /\ store = ChainStore(k, end, content)
                            @@ (ChainPointer :> Str(ChainTarget))
    /\ primaryDomain = <<>>
    /\ FrameIs(IdleFrame)
    /\ parked = IdleFrame
    /\ served = {}
    /\ handled = 0
    /\ PathIdle
    /\ DecryptIdle
    /\ TargetIdle
    /\ HeadersIdle
    /\ LegacyIdle

\* Another client of the store points the pointer elsewhere while the
\* content of the request is being resolved.
PointerRewritten ==
    /\ pc \in {"resolve", "resolved"}
    /\ ChainPointer \in DOMAIN store
    /\ store[ChainPointer] = Str(ChainTarget)
    /\ store' = [store EXCEPT ![ChainPointer] = Str(ChainOtherBase)]
    /\ UNCHANGED <<target, primaryDomain, req, env, pc, contentPath, baseUri,
                   curUri, origPath, curDepth, attempts, reads, response>>
    /\ UNCHANGED besidesHandler

NextChain ==
    \/ PointerRewritten
    \/ HandleServe(ChainRequest)
    \/ ResolveTargetRead
    \/ HandleContent
    \/ ResolveByProtocol
    \/ HandleContentIndex
    \/ HandleContentReturn

SpecChain == InitChain /\ [][NextChain]_vars

\* The number of link:// records of the chain, the record it ends at and the
\* content of that record.
ChainLength == Cardinality({u \in DOMAIN store : u \in ChainUris})
ChainEnd == CHOOSE e \in ChainEnds : e \in DOMAIN store

\* C30: link following is bounded by exactly 10 hops.  A chain of k
\* consecutive link:// records that ends at a readable blob or direct
\* record resolves to the content of that record if and only if k <= 10,
\* every record of the chain being read; for k >= 11 the outcome is 508,
\* the first 11 links are read and the record after the 11th is never read.
C30_ExactlyTenHops ==
    (pc = "done" /\ store[ChainEnd] # NoRecord) =>
       IF ChainLength <= 10
       THEN /\ response.status = 200
            /\ response.body = BodyOf(unwrapData(store[ChainEnd]))
            /\ Len(attempts) = 1
            /\ attempts[1].reads =
                  [i \in 1..(ChainLength + 1) |->
                      IF i <= ChainLength THEN ChainLink(i) ELSE ChainEnd]
       ELSE /\ response.status = 508
            /\ Len(attempts) = 1
            /\ attempts[1].reads = [i \in 1..11 |-> ChainLink(i)]

\* A chain of ten links was followed to its end.
C30_Witness ==
    /\ pc = "done"
    /\ ChainLength = 10
    /\ store[ChainEnd] # NoRecord
    /\ Len(attempts[1].reads) = 11
    /\ response.status = 200

\* A chain of eleven links was refused after its eleventh link was read.
C30_WitnessEleven ==
    /\ pc = "done"
    /\ ChainLength = 11
    /\ Len(attempts[1].reads) = 11
    /\ attempts[1].reads[11] = ChainLink(11)
    /\ response.status = 508


\* C31: every content request issues a bounded number of reads whatever the
\* store holds: at most 11 per resolveByProtocol attempt, at most two
\* attempts, at most one pointer or registry read, at most 23 in all.
C31_BoundedReads ==
    /\ Len(attempts) <= 2
    /\ \A k \in 1..Len(attempts) : Len(attempts[k].reads) <= 11
    /\ PointerReads \in {0, 1}
    /\ Len(reads) <= 23
    /\ Len(reads) = PointerReads + Len(ReadsOf(attempts))

\* A request read its pointer, ten links and the missing record they led
\* to, and eleven more records for index.html: 23 reads.
C31_Witness ==
    /\ pc = "done"
    /\ PointerReads = 1
    /\ Len(attempts) = 2
    /\ Len(attempts[1].reads) = 11
    /\ Len(attempts[2].reads) = 11
    /\ Len(reads) = 23


\* C32: within one request the pointer (or the registry entry) is read at
\* most once and before any content read, and the exact attempt and the
\* index.html attempt start from the one base that read resolved, whatever
\* the pointer holds in the store by then.
C32_OneResolvedBase ==
    /\ PointerReads \in {0, 1}
    /\ reads = SubSeq(reads, 1, PointerReads) \o ReadsOf(attempts)
    /\ (PointerReads = 1 /\ IsServe) => reads[1] = target
    /\ (PointerReads = 1 /\ IsCustom) => reads[1] = RegistryUriOf(req.host)
    /\ \A k \in 1..Len(attempts) :
          attempts[k].hops[1] = IF k = 1 THEN fullUri(baseUri, contentPath)
                                ELSE indexUri(baseUri, contentPath)
    /\ (target = ChainPointer /\ Len(attempts) > 0) =>
          /\ PointerReads = 1
          /\ baseUri = ChainTarget

\* The pointer was rewritten after the request had read it; both attempts
\* were made below the base that was read.
C32_Witness ==
    /\ pc = "done"
    /\ target = ChainPointer
    /\ store[ChainPointer] = Str(ChainOtherBase)
    /\ Len(attempts) = 2
    /\ attempts[2].hops[1] = indexUri(ChainTarget, contentPath)
    /\ Len(attempts[2].reads) > 0


\* C33: every failure of decrypt is raised as a DecryptError carrying one of
\* NO_KEY_FOR_HOST, INVALID_KEY, INVALID_CONTENT or DECRYPT_FAILED; no other
\* exception type escapes decrypt.
C33_Original ==
    (dpc = "done" /\ ~output.ok) =>
       /\ output.name = "DecryptError"
       /\ output.code \in {"NO_KEY_FOR_HOST", "INVALID_KEY", "INVALID_CONTENT",
                           "DECRYPT_FAILED"}

\* The statement restricted to runtimes whose importKey takes a raw private
\* scalar; it fails there too, on the authentication failure of a wrapped
\* key under a private key it was not wrapped to.
C33_OriginalWhereRawImported ==
    rawImport = "accepted" => C33_Original

\* What holds of C33: an exception that is no DecryptError comes out of
\* unwrapContentKey, and every failure before or after it is a DecryptError
\* with one of the four codes.
C33_OnlyUnwrapEscapes ==
    (dpc = "done" /\ ~output.ok /\ output.name # "DecryptError") =>
       /\ selected.has
       /\ Len(hexToBytes(selected.v)) >= MinWrappedLength
       /\ unwrapped = output
       /\ output.name \in {"SyntaxError", "DataError", "OperationError"}


\* C34: every response to a content request that is not 200 (404, 400, 500,
\* 503, 508) carries Cache-Control: no-store and every 200 content response
\* a public max-age directive; an error response is never cacheable.  The
\* same holds of the response of each attempt of resolveByProtocol.
C34_ErrorsAreNoStore ==
    /\ ((IsServe \/ IsCustom) /\ pc = "done") =>
          IF response.status = 200
          THEN response.cache \in {"public, max-age=31536000, immutable",
                                   "public, max-age=3600"}
          ELSE /\ response.status \in {400, 404, 500, 503, 508}
               /\ response.cache = "no-store"
    /\ \A k \in 1..Len(attempts) :
          attempts[k].resp # NoResponse =>
             (attempts[k].resp.cache = "no-store") = (attempts[k].resp.status # 200)

\* A request was refused at the depth bound with a response that is not to
\* be stored.
C34_Witness ==
    /\ IsServe
    /\ pc = "done"
    /\ response.status = 508
    /\ response.cache = "no-store"

\* The other error statuses of content serving, and a served file.
C34_WitnessBadRequest == IsServe /\ pc = "done" /\ response.status = 400
C34_WitnessNoTarget == IsServe /\ pc = "done" /\ response.status = 503
C34_WitnessMapping == IsCustom /\ pc = "done" /\ response.status = 500
C34_WitnessServed ==
    /\ ContentServed
    /\ response.cache = "public, max-age=31536000, immutable"


\* C35: whenever resolvePath returns, the returned filePath is a key of
\* manifest.files and the returned file is the entry of that key; a path
\* the manifest does not list is never returned.
C35_Original ==
    (resolved # Pending /\ resolved.ok) =>
       /\ Listed(manifest, resolved.filePath)
       /\ resolved.file = [kind |-> "entry", key |-> resolved.filePath]

\* What holds of C35: the returned file is what manifest.files[filePath]
\* evaluates to, and the path is listed unless it names a property that
\* objects inherit.
C35_ListedOffInheritedNames ==
    (resolved # Pending /\ resolved.ok) =>
       /\ resolved.file = filesGet(manifest.files, resolved.filePath)
       /\ \/ Listed(manifest, resolved.filePath)
          \/ /\ Len(resolved.filePath) = 1
             /\ resolved.filePath[1] \in ObjectPrototypeKeys
             /\ resolved.file.kind = "inherited"


\* A signed envelope: an object with the signatures and the payload.
SignedEnvelope(d) == HasField(d, "auth") /\ HasField(d, "payload")

\* C36: unwrapping replaces a stored value by its payload only when the
\* value is a signed envelope; a stored JSON object that is not a signed
\* envelope is served whole, also when it has a field named payload.
C36_Original ==
    (/\ pc = "done"
     /\ response.status = 200
     /\ store[ChainEnd].t = "object"
     /\ ~SignedEnvelope(store[ChainEnd])) =>
       response.body = [t |-> "json", v |-> <<store[ChainEnd]>>]

\* What holds of C36: an object without a field named payload is served
\* whole, and an object with one is replaced by that field, signed or not.
C36_PayloadOfAnyObject ==
    (pc = "done" /\ response.status = 200 /\ store[ChainEnd].t = "object") =>
       response.body = IF HasField(store[ChainEnd], "payload")
                       THEN BodyOf(Field(store[ChainEnd], "payload"))
                       ELSE [t |-> "json", v |-> <<store[ChainEnd]>>]


\* The pointer of the request was read and gave no record or a value that
\* is no string once unwrapped.
PointerUnresolved ==
    /\ IsServe
    /\ IsPointer(target)
    /\ pc \notin {"idle", "target"}
    /\ target \in DOMAIN store
    /\ store[target] = NoRecord \/ unwrapData(store[target]).t # "string"

\* C37: when the target is a mutable:// URI not ending with "/" and its
\* pointer record is absent, unreadable or holds a non-string value, the
\* request is not rejected: the configured target URI itself is the base
\* of the content resolution.
C37_TargetIsBaseWhenUnresolved ==
    PointerUnresolved =>
       /\ baseUri = target
       /\ attempts # <<>> => attempts[1].hops[1] = fullUri(target, contentPath)
       /\ Len(attempts) = 2 => attempts[2].hops[1] = indexUri(target, contentPath)
       /\ pc = "done" =>
             /\ attempts # <<>>
             /\ response = attempts[Len(attempts)].resp
             /\ response.status # 503

\* The pointer held an object; content was served from below the pointer's
\* own URI.
C37_Witness ==
    /\ PointerUnresolved
    /\ store[target] = PlainObject
    /\ pc = "done"
    /\ response.status = 200
    /\ attempts[1].hops[1] = fullUri(target, contentPath)

\* The pointer record was absent.
C37_WitnessAbsent ==
    /\ PointerUnresolved
    /\ store[target] = NoRecord
    /\ pc = "done"
    /\ Len(attempts[1].reads) > 0


\* The domain-check request was answered after reading the registry.
DomainChecked ==
    /\ pc = "done"
    /\ createHandler(req, primaryDomain) = "domain-check"
    /\ Len(req.domain) > 0

\* The registry record the domain check read.
CheckedRecord == store[mappingUri(ToLowerCase(req.domain))]

\* C38: domain-check answers 200 exactly for the domains custom-domain
\* serving accepts: when it answers 200 for d, a request with Host d is
\* resolved against a base URI and is answered neither "Domain not
\* configured" nor "Invalid domain mapping", and both read the same registry
\* key for d.
C38_Original ==
    DomainChecked =>
       /\ reads = <<RegistryUriOf(req.domain)>>
       /\ response.status = 200 <=> domainMapping(CheckedRecord).kind = "base"

\* What holds of C38: both read the same key, and domain-check answers 200
\* exactly when custom-domain serving does not answer "Domain not
\* configured"; a record that is no mapping is answered 200 by the one and
\* "Invalid domain mapping" by the other.
C38_AgreeOnRegistered ==
    DomainChecked =>
       /\ reads = <<RegistryUriOf(req.domain)>>
       /\ response.status \in {200, 404}
       /\ response.status = 200 <=> domainMapping(CheckedRecord).kind # "missing"

\* The domain check answered 200 for a domain whose registry record is an
\* object without a target.
C38_InvalidMappingChecked ==
    /\ DomainChecked
    /\ response.status = 200
    /\ CheckedRecord = PlainObject
    /\ domainMapping(CheckedRecord).kind = "invalid"


(***************************************************************************)
(* public-static/src/handler.ts: handleContent and findLinkInPath          *)
(*                                                                         *)
(* The handler of the public-static host resolves a URI by reading it and, *)
(* when it has no record, by walking up its path for a link to follow.     *)
(* One call handleContent(client, uri) is made; the records of the store   *)
(* are found as they are read and stay as found.                           *)
(***************************************************************************)

\* MAX_LINK_DEPTH of this handler.
LEGACY_MAX_LINK_DEPTH == 5

\* isLink: a string starting with immutable:// or mutable://.
isLink(data) ==
    /\ data.t = "string"
    /\ \/ StartsWith(data.v, <<"immutable">> \o SchemeSep)
       \/ StartsWith(data.v, <<"mutable">> \o SchemeSep)

\* s.split("/").
RECURSIVE SplitSlash(_)
SplitSlash(s) ==
    IF Includes(s, "/")
    THEN <<BeforeFirst(s, "/")>>
           \o SplitSlash(SubSeq(s, Len(BeforeFirst(s, "/")) + 2, Len(s)))
    ELSE <<s>>

\* segments.join("/").
RECURSIVE JoinSlash(_)
JoinSlash(segments) ==
    IF segments = <<>> THEN <<>>
    ELSE IF Len(segments) = 1 THEN segments[1]
    ELSE segments[1] \o <<"/">> \o JoinSlash(Tail(segments))

\* uri.match(/^([^:]+:\/\/[^/]+)\/(.+)$/): the scheme and the domain, and
\* the path after them, which is not empty.
uriMatch(uri) ==
    LET rest == SubSeq(uri, 5, Len(uri))
        domain == BeforeFirst(rest, "/")
    IN  IF /\ Len(uri) >= 4
           /\ uri[1] \notin {":", "/"}
           /\ SubSeq(uri, 2, 4) = SchemeSep
           /\ Includes(rest, "/")
           /\ Len(domain) > 0
           /\ Len(rest) > Len(domain) + 1
        THEN [matched |-> TRUE,
              base |-> SubSeq(uri, 1, 4) \o domain,
              fullPath |-> SubSeq(rest, Len(domain) + 2, Len(rest))]
        ELSE [matched |-> FALSE, base |-> <<>>, fullPath |-> <<>>]

\* The segments of the path findLinkInPath walks; none when the URI does
\* not match.
segmentsOf(uri) ==
    IF uriMatch(uri).matched THEN SplitSlash(uriMatch(uri).fullPath) ELSE <<>>

\* `${base}/${segments.slice(0, i).join("/")}`.
checkUri(uri, i) ==
    uriMatch(uri).base \o <<"/">> \o JoinSlash(SubSeq(segmentsOf(uri), 1, i))

\* The link is followed without the rest of the path.
remainingPath_Dropped(uri, i) == <<>>

\* `segments.slice(i).join("/")`.
remainingPath(uri, i) ==
    JoinSlash(SubSeq(segmentsOf(uri), i + 1, Len(segmentsOf(uri))))

\* `${normalizedLink}${remainingPath}`.
newUri(linkTarget, remaining) ==
    (IF EndsWith(linkTarget, "/") THEN linkTarget ELSE linkTarget \o <<"/">>)
        \o remaining

\* getContentTypeFromUri of this handler: a chain of endsWith tests.
legacyContentType(uri) ==
    LET path == AfterLast(uri, "/")
        n == Len(path)
        ext == IF n >= 2 /\ path[n-1] = "." THEN path[n] ELSE ""
    IN  CASE ext = "html" -> "text/html; charset=utf-8"
          [] ext = "css" -> "text/css; charset=utf-8"
          [] ext = "js" -> "application/javascript; charset=utf-8"
          [] ext = "json" -> "application/json; charset=utf-8"
          [] ext = "png" -> "image/png"
          [] ext \in {"jpg", "jpeg"} -> "image/jpeg"
          [] ext = "gif" -> "image/gif"
          [] ext = "svg" -> "image/svg+xml"
          [] ext = "woff2" -> "font/woff2"
          [] ext = "woff" -> "font/woff"
          [] OTHER -> "application/octet-stream"

\* getCacheControl of this handler: a short cache under mutable://.
legacyCacheControl(uri) ==
    IF StartsWith(uri, <<"mutable">> \o SchemeSep)
    THEN "public, max-age=5"
    ELSE getCacheControl(uri)

\* serveContent of this handler.
legacyServeContent(data, uri) ==
    IF data.t \in {"string", "bytes"}
    THEN Response(200, data, legacyContentType(uri), legacyCacheControl(uri))
    ELSE Response(200, [t |-> "json", v |-> <<data>>],
                  "application/json; charset=utf-8", legacyCacheControl(uri))

\* The URIs handleContent is called with: a file three levels down, a
\* directory with and without its slash, and a domain without a path.
LegacyDomain == Uri("mutable", <<"p">>)
LegacyFile == LegacyDomain \o <<"/", "a", "/", "b", "/", "c", ".", "html">>
LegacyUris ==
    {LegacyFile,
     LegacyDomain \o <<"/", "a", "/">>,
     LegacyDomain \o <<"/", "a">>,
     LegacyDomain}

\* What a read may find: nothing, the empty string, text, a link to another
\* site with and without envelope, and a link back to the first directory,
\* written without its slash.
LinkAway == Uri("immutable", <<"q", "/", "s", "/">>)
LinkBack == LegacyDomain \o <<"/", "a">>
LegacyRecords ==
    {NoRecord, Str(<<>>), Str(<<"hello">>), Str(LinkAway), Envelope(Str(LinkAway)),
     Str(LinkBack)}

\* client.read(u) finds rec.
LegacyRead(u, rec) ==
    /\ rec \in LegacyRecords
    /\ u \in DOMAIN legacyStore => rec = legacyStore[u]
    /\ legacyStore' = IF u \in DOMAIN legacyStore THEN legacyStore
                      ELSE legacyStore @@ (u :> rec)
    /\ legacyReads' = Append(legacyReads, u)

\* handleContent(client, u, depth) is entered.
LegacyCall(u, depth) ==
    /\ legacyUri' = u
    /\ legacyDepth' = depth
    /\ walkIndex' = 0
    /\ legacyPc' = "call"
    /\ UNCHANGED legacyResponse

\* handleContent returns resp.
LegacyReturn(resp) ==
    /\ legacyResponse' = resp
    /\ legacyPc' = "done"
    /\ UNCHANGED <<legacyUri, legacyDepth, walkIndex>>

InitLegacy ==
    /\ HandlerIdle
    /\ PathIdle
    /\ DecryptIdle
    /\ TargetIdle
    /\ HeadersIdle
    /\ legacyStore = <<>>
    /\ legacyUri \in LegacyUris
    /\ legacyDepth = 0
    /\ walkIndex = 0
    /\ calls = <<>>
    /\ legacyReads = <<>>
    /\ legacyResponse = [status |-> 0]
    /\ legacyPc = "call"

\* One invocation of handleContent up to its return, its recursive call or
\* the first read of findLinkInPath.
LegacyHandleContent ==
    /\ legacyPc = "call"
    /\ IF legacyDepth > LEGACY_MAX_LINK_DEPTH
       THEN /\ LegacyReturn(ErrorResponse(508,
                               <<"Too many link redirects (max 5)">>))
            /\ calls' = Append(calls, [uri |-> legacyUri, depth |-> legacyDepth,
                                       exact |-> <<>>, probes |-> <<>>])
            /\ UNCHANGED <<legacyStore, legacyReads>>
       ELSE \E rec \in LegacyRecords :
              /\ LegacyRead(legacyUri, rec)
              /\ calls' = Append(calls, [uri |-> legacyUri, depth |-> legacyDepth,
                                         exact |-> <<rec>>, probes |-> <<>>])
              /\ IF Found(rec)
                 THEN IF isLink(unwrapData(rec)) /\ Truthy(unwrapData(rec))
                      THEN LegacyCall(unwrapData(rec).v, legacyDepth + 1)
                      ELSE LegacyReturn(legacyServeContent(unwrapData(rec), legacyUri))
                 ELSE IF Len(segmentsOf(legacyUri)) >= 2
                 THEN /\ walkIndex' = Len(segmentsOf(legacyUri)) - 1
                      /\ legacyPc' = "walk"
                      /\ UNCHANGED <<legacyUri, legacyDepth, legacyResponse>>
                 ELSE LegacyReturn(ErrorResponse(404, <<"Not found: ">> \o legacyUri))
    /\ UNCHANGED besidesLegacy

\* One turn of the loop of findLinkInPath, with the read it issues, and what
\* handleContent does when the loop returns.
FindLinkInPath ==
    /\ legacyPc = "walk"
    /\ \E rec \in LegacyRecords :
         LET n == Len(calls)
             probed == checkUri(legacyUri, walkIndex)
         IN  /\ LegacyRead(probed, rec)
             /\ calls' = [calls EXCEPT ![n].probes = Append(@, probed)]
             /\ IF Found(rec) /\ isLink(unwrapData(rec)) /\ Truthy(unwrapData(rec))
                THEN LegacyCall(newUri(unwrapData(rec).v,
                                       remainingPath(legacyUri, walkIndex)),
                                legacyDepth + 1)
                ELSE IF walkIndex > 1
                THEN /\ walkIndex' = walkIndex - 1
                     /\ UNCHANGED <<legacyUri, legacyDepth, legacyResponse, legacyPc>>
                ELSE LegacyReturn(ErrorResponse(404, <<"Not found: ">> \o legacyUri))
    /\ UNCHANGED besidesLegacy

NextLegacy ==
    \/ LegacyHandleContent
    \/ FindLinkInPath

SpecLegacy == InitLegacy /\ [][NextLegacy]_vars


(***************************************************************************)
(* Properties of the legacy handler                                        *)
(***************************************************************************)

\* The URI without its last segment.
ParentOf(u) == SubSeq(u, 1, LastIndexOf(u, "/") - 1)

\* The URI is a scheme and a domain with no path.
IsDomainOnly(u) == ~Includes(SubSeq(u, 5, Len(u)), "/")

\* The ancestors of a URI below its domain, from the deepest to the
\* shallowest.
RECURSIVE AncestorsUp(_)
AncestorsUp(u) ==
    IF IsDomainOnly(u) \/ IsDomainOnly(ParentOf(u))
    THEN <<>>
    ELSE <<ParentOf(u)>> \o AncestorsUp(ParentOf(u))

\* The store holds a link at u.
IsLinkAt(u) == Found(legacyStore[u]) /\ isLink(unwrapData(legacyStore[u]))

\* The reads of the invocations, in order.
RECURSIVE LegacyReadsOf(_)
LegacyReadsOf(cs) ==
    IF cs = <<>> THEN <<>>
    ELSE (IF Head(cs).exact = <<>> THEN <<>> ELSE <<Head(cs).uri>>)
           \o Head(cs).probes \o LegacyReadsOf(Tail(cs))

\* C39: in the legacy handler, when the exact URI has no record, the
\* ancestors of the URI path are probed from the deepest to the shallowest;
\* the first one whose value is a link is followed with the remaining
\* segments appended to the link target, no shallower ancestor is read after
\* it, and each follow counts one step toward the depth bound of 5.
C39_WalkUpToFirstLink ==
    /\ Len(calls) <= LEGACY_MAX_LINK_DEPTH + 2
    /\ legacyReads = LegacyReadsOf(calls)
    /\ \A k \in 1..Len(calls) :
         LET c == calls[k]
             missed == c.exact # <<>> /\ ~Found(c.exact[1])
             m == Len(c.probes)
             all == AncestorsUp(c.uri)
         IN  /\ c.depth = k - 1
             /\ (c.exact = <<>>) = (c.depth > 5)
             /\ ~missed => m = 0
             /\ m <= Len(all)
             /\ c.probes = SubSeq(all, 1, m)
             /\ \A j \in 1..(m - 1) : ~IsLinkAt(c.probes[j])
             /\ (missed /\ k < Len(calls)) =>
                   /\ m >= 1
                   /\ IsLinkAt(c.probes[m])
                   /\ LET link == unwrapData(legacyStore[c.probes[m]]).v
                          rest == SubSeq(c.uri, Len(c.probes[m]) + 2, Len(c.uri))
                      IN  calls[k + 1].uri =
                             (IF Last(link) = "/" THEN link ELSE link \o <<"/">>)
                                \o rest
             /\ (missed /\ k = Len(calls) /\ legacyPc = "done") =>
                   /\ m = Len(all)
                   /\ m > 0 => ~IsLinkAt(c.probes[m])
                   /\ legacyResponse.status = 404
    /\ (legacyPc = "done" /\ legacyResponse.status = 508) =>
          /\ Len(calls) = 7
          /\ calls[7].exact = <<>>

\* The file had no record and its parent held text; the link of the
\* grandparent was followed with both remaining segments, and served.
C39_Witness ==
    /\ legacyPc = "done"
    /\ legacyResponse.status = 200
    /\ Len(calls) = 2
    /\ calls[1].uri = LegacyFile
    /\ calls[1].probes = <<LegacyDomain \o <<"/", "a", "/", "b">>,
                           LegacyDomain \o <<"/", "a">> >>
    /\ legacyStore[LegacyDomain \o <<"/", "a", "/", "b">>] = Str(<<"hello">>)
    /\ calls[2].uri = LinkAway \o <<"b", "/", "c", ".", "html">>

\* Six links were followed by way of ancestors and the seventh call was
\* refused.
C39_WitnessDepth ==
    /\ legacyPc = "done"
    /\ legacyResponse.status = 508
    /\ \A k \in 1..6 : Len(calls[k].probes) >= 1

=============================================================================
